---- MODULE Spec2Model ----
(***************************************************************************)
(* Content-Length message framing of copilot-sdk-dnalang:                  *)
(*   - the stdio loop of the NCLM MCP server (nclm_mcp_server.py, main),   *)
(*     which reads framed JSON-RPC requests and writes framed responses;   *)
(*   - the JSON-RPC client reader (_read_exact / _read_message) that the   *)
(*     unit tests of test_jsonrpc.py drive over ShortReadStream.           *)
(* Bytes are integers 0..255, text is a sequence of Unicode code points,   *)
(* JSON values are tagged records.                                         *)
(***************************************************************************)
EXTENDS Integers, Sequences, FiniteSets, TLC

(***************************************************************************)
(* Bounds of the model.                                                    *)
(***************************************************************************)
\* Per-call chunk limits 1..MaxChunk are explored (plus the harness default).
MaxChunk == 3
\* At most MaxMsgs frames are put on one stream.
MaxMsgs == 2
\* The stream may close up to MaxDrop bytes before the end of the last frame.
MaxDrop == 5
\* _read_exact is asked for 0..MaxNeed bytes of a stream of up to MaxNeed bytes.
MaxNeed == 5
\* At most MaxCalls direct _read_exact calls are made on one stream.
MaxCalls == 2
\* Circuits have 1..MaxQubits qubits and up to MaxGates gates.
MaxQubits == 2
MaxGates == 2
\* MaxWriters callers run the write block of main() on one StreamWriter.
MaxWriters == 2

(***************************************************************************)
(* Sequence helpers.                                                       *)
(***************************************************************************)
Min(a, b) == IF a <= b THEN a ELSE b

Max(a, b) == IF a >= b THEN a ELSE b

\* Python slice s[i:j] for 0-based i, j: a negative index counts from the end,
\* and both are clamped to the sequence.
SliceIndex(s, i) == IF i < 0 THEN Max(i + Len(s), 0) ELSE Min(i, Len(s))

Slice(s, i, j) ==
    LET lo == SliceIndex(s, i)
        hi == SliceIndex(s, j)
    IN  IF hi <= lo THEN <<>> ELSE SubSeq(s, lo + 1, hi)

IsPrefix(p, s) == Len(p) <= Len(s) /\ SubSeq(s, 1, Len(p)) = p

RECURSIVE Concat(_)
Concat(ss) == IF ss = <<>> THEN <<>> ELSE Head(ss) \o Concat(Tail(ss))

\* 0-based index of the first occurrence of byte b in s at or after 0-based
\* index from, or -1 (bytes.find).
RECURSIVE Find(_, _, _)
Find(s, b, from) ==
    IF from >= Len(s) THEN -1
    ELSE IF s[from + 1] = b THEN from
    ELSE Find(s, b, from + 1)

\* ASCII whitespace as bytes.strip() / str.strip() remove it.
IsSpace(c) == c \in {32, 9, 10, 11, 12, 13}

RECURSIVE LStrip(_)
LStrip(s) == IF s # <<>> /\ IsSpace(Head(s)) THEN LStrip(Tail(s)) ELSE s

RECURSIVE RStrip(_)
RStrip(s) ==
    IF s # <<>> /\ IsSpace(s[Len(s)]) THEN RStrip(SubSeq(s, 1, Len(s) - 1)) ELSE s

Strip(s) == RStrip(LStrip(s))

(***************************************************************************)
(* Decimal integers: str(n) and int(text).                                 *)
(***************************************************************************)
IsDigit(c) == c >= 48 /\ c <= 57

\* str(n) for a natural number n.
RECURSIVE IntToStr(_)
IntToStr(n) ==
    IF n < 10 THEN <<48 + n>> ELSE IntToStr(n \div 10) \o <<48 + (n % 10)>>

RECURSIVE DigitsValue(_, _)
DigitsValue(s, acc) ==
    IF s = <<>> THEN acc ELSE DigitsValue(Tail(s), 10 * acc + (Head(s) - 48))

AllDigits(s) == s # <<>> /\ \A i \in 1..Len(s) : IsDigit(s[i])

\* int(text): surrounding whitespace and one sign are accepted; [ok |-> FALSE]
\* stands for ValueError.  (Digit-group underscores and non-ASCII digits, which
\* int() also accepts, are not among the modelled inputs.)
ParseInt(text) ==
    LET t == Strip(text)
        signed == t # <<>> /\ Head(t) \in {43, 45}
        digits == IF signed THEN Tail(t) ELSE t
    IN  IF AllDigits(digits)
        THEN [ok |-> TRUE,
              v |-> IF signed /\ Head(t) = 45
                    THEN 0 - DigitsValue(digits, 0)
                    ELSE DigitsValue(digits, 0)]
        ELSE [ok |-> FALSE, v |-> 0]

(***************************************************************************)
(* UTF-8: str.encode() and bytes.decode(), for code points below 65536     *)
(* (sequences of one to three bytes).                                      *)
(***************************************************************************)
EncodeCodePoint(c) ==
    IF c < 128 THEN <<c>>
    ELSE IF c < 2048 THEN <<192 + (c \div 64), 128 + (c % 64)>>
    ELSE <<224 + (c \div 4096), 128 + ((c \div 64) % 64), 128 + (c % 64)>>

RECURSIVE Utf8Encode(_)
Utf8Encode(text) ==
    IF text = <<>> THEN <<>>
    ELSE EncodeCodePoint(Head(text)) \o Utf8Encode(Tail(text))

IsCont(b) == b >= 128 /\ b <= 191

\* Strict decoding; [ok |-> FALSE] stands for UnicodeDecodeError.
RECURSIVE Utf8Decode(_, _)
Utf8Decode(bytes, acc) ==
    IF bytes = <<>> THEN [ok |-> TRUE, text |-> acc]
    ELSE LET b == Head(bytes)
             n == Len(bytes)
         IN  IF b < 128 THEN Utf8Decode(Tail(bytes), Append(acc, b))
             ELSE IF b >= 194 /\ b <= 223 /\ n >= 2 /\ IsCont(bytes[2])
             THEN Utf8Decode(SubSeq(bytes, 3, n),
                             Append(acc, (b - 192) * 64 + (bytes[2] - 128)))
             ELSE IF b >= 224 /\ b <= 239 /\ n >= 3 /\ IsCont(bytes[2])
                     /\ IsCont(bytes[3])
                     /\ (b = 224 => bytes[2] >= 160)
                     /\ (b = 237 => bytes[2] <= 159)
             THEN Utf8Decode(SubSeq(bytes, 4, n),
                             Append(acc, (b - 224) * 4096 + (bytes[2] - 128) * 64
                                         + (bytes[3] - 128)))
             ELSE [ok |-> FALSE, text |-> <<>>]

(***************************************************************************)
(* JSON values and the json module: json.dumps and json.loads.             *)
(* A value is null, an integer, a string (code points below 65536), an     *)
(* array, or an object (members in insertion order, as a Python dict       *)
(* keeps them).  The literals true and false and fractional numbers are    *)
(* outside the modelled values.  A Python tuple is a value json.dumps      *)
(* accepts and writes as an array.                                         *)
(***************************************************************************)
JNull == [t |-> "null"]

PyTuple(items) == [t |-> "tuple", v |-> items]

JInt(n) == [t |-> "int", v |-> n]

JStr(text) == [t |-> "str", v |-> text]

JArr(items) == [t |-> "arr", v |-> items]

JObj(members) == [t |-> "obj", v |-> members]

Member(key, value) == [k |-> key, v |-> value]

HexDigit(d) == IF d < 10 THEN 48 + d ELSE 87 + d

Hex4(c) ==
    <<HexDigit(c \div 4096), HexDigit((c \div 256) % 16),
      HexDigit((c \div 16) % 16), HexDigit(c % 16)>>

\* One character of a string literal under ensure_ascii=True.
EscapeChar(c) ==
    IF c \in {34, 92} THEN <<92, c>>
    ELSE IF c = 10 THEN <<92, 110>>
    ELSE IF c = 13 THEN <<92, 114>>
    ELSE IF c = 9 THEN <<92, 116>>
    ELSE IF c = 8 THEN <<92, 98>>
    ELSE IF c = 12 THEN <<92, 102>>
    ELSE IF c >= 32 /\ c <= 126 THEN <<c>>
    ELSE <<92, 117>> \o Hex4(c)

RECURSIVE EscapeText(_)
EscapeText(text) ==
    IF text = <<>> THEN <<>> ELSE EscapeChar(Head(text)) \o EscapeText(Tail(text))

DumpsStr(text) == <<34>> \o EscapeText(text) \o <<34>>

DumpsInt(n) == IF n < 0 THEN <<45>> \o IntToStr(0 - n) ELSE IntToStr(n)

\* json.dumps(v, separators=(item_sep, key_sep)); the result is a str.
RECURSIVE json_dumps(_, _, _)
RECURSIVE DumpsItems(_, _, _)
RECURSIVE DumpsMembers(_, _, _)
json_dumps(v, item_sep, key_sep) ==
    IF v.t = "null" THEN <<110, 117, 108, 108>>
    ELSE IF v.t = "int" THEN DumpsInt(v.v)
    ELSE IF v.t = "str" THEN DumpsStr(v.v)
    ELSE IF v.t \in {"arr", "tuple"}
    THEN <<91>> \o DumpsItems(v.v, item_sep, key_sep) \o <<93>>
    ELSE <<123>> \o DumpsMembers(v.v, item_sep, key_sep) \o <<125>>

DumpsItems(items, item_sep, key_sep) ==
    IF items = <<>> THEN <<>>
    ELSE json_dumps(Head(items), item_sep, key_sep)
         \o (IF Len(items) > 1 THEN item_sep ELSE <<>>)
         \o DumpsItems(Tail(items), item_sep, key_sep)

DumpsMembers(ms, item_sep, key_sep) ==
    IF ms = <<>> THEN <<>>
    ELSE DumpsStr(Head(ms).k) \o key_sep
         \o json_dumps(Head(ms).v, item_sep, key_sep)
         \o (IF Len(ms) > 1 THEN item_sep ELSE <<>>)
         \o DumpsMembers(Tail(ms), item_sep, key_sep)

\* The default separators of json.dumps: ", " and ": ".
DefaultItemSep == <<44, 32>>

DefaultKeySep == <<58, 32>>

\* dict[key] = value: a key already present keeps its place.
DictSet(ms, key, value) ==
    IF \E i \in 1..Len(ms) : ms[i].k = key
    THEN [i \in 1..Len(ms) |->
             IF ms[i].k = key THEN Member(key, value) ELSE ms[i]]
    ELSE Append(ms, Member(key, value))

IsJsonWs(c) == c \in {32, 9, 10, 13}

RECURSIVE SkipWs(_, _)
SkipWs(s, p) == IF p <= Len(s) /\ IsJsonWs(s[p]) THEN SkipWs(s, p + 1) ELSE p

ParseFail(p) == [ok |-> FALSE, v |-> JNull, p |-> p]

ParseOk(value, p) == [ok |-> TRUE, v |-> value, p |-> p]

IsHex(c) == IsDigit(c) \/ (c >= 97 /\ c <= 102) \/ (c >= 65 /\ c <= 70)

HexValue(c) == IF IsDigit(c) THEN c - 48 ELSE IF c >= 97 THEN c - 87 ELSE c - 55

\* End (1-based, exclusive) of the run of digits that starts at p.
RECURSIVE DigitsEnd(_, _)
DigitsEnd(s, p) == IF p <= Len(s) /\ IsDigit(s[p]) THEN DigitsEnd(s, p + 1) ELSE p

\* The integer literal -?(0|[1-9][0-9]*) at p.
ParseNumber(s, p) ==
    LET neg == s[p] = 45
        d == IF neg THEN p + 1 ELSE p
    IN  IF d > Len(s) \/ ~IsDigit(s[d]) THEN ParseFail(p)
        ELSE LET e == IF s[d] = 48 THEN d + 1 ELSE DigitsEnd(s, d)
                 n == DigitsValue(SubSeq(s, d, e - 1), 0)
             IN  ParseOk(JInt(IF neg THEN 0 - n ELSE n), e)

\* The rest of a string literal, p just after the opening quote.
RECURSIVE ParseString(_, _, _)
ParseString(s, p, acc) ==
    IF p > Len(s) THEN ParseFail(p)
    ELSE IF s[p] = 34 THEN ParseOk(JStr(acc), p + 1)
    ELSE IF s[p] < 32 THEN ParseFail(p)
    ELSE IF s[p] # 92 THEN ParseString(s, p + 1, Append(acc, s[p]))
    ELSE IF p + 1 > Len(s) THEN ParseFail(p)
    ELSE LET e == s[p + 1]
         IN  IF e \in {34, 92, 47} THEN ParseString(s, p + 2, Append(acc, e))
             ELSE IF e = 110 THEN ParseString(s, p + 2, Append(acc, 10))
             ELSE IF e = 114 THEN ParseString(s, p + 2, Append(acc, 13))
             ELSE IF e = 116 THEN ParseString(s, p + 2, Append(acc, 9))
             ELSE IF e = 98 THEN ParseString(s, p + 2, Append(acc, 8))
             ELSE IF e = 102 THEN ParseString(s, p + 2, Append(acc, 12))
             ELSE IF e = 117 /\ p + 5 <= Len(s)
                     /\ \A i \in (p + 2)..(p + 5) : IsHex(s[i])
             THEN ParseString(s, p + 6,
                      Append(acc, HexValue(s[p + 2]) * 4096 + HexValue(s[p + 3]) * 256
                                  + HexValue(s[p + 4]) * 16 + HexValue(s[p + 5])))
             ELSE ParseFail(p)

RECURSIVE ParseValue(_, _)
RECURSIVE ParseItems(_, _, _)
RECURSIVE ParseMembers(_, _, _)
\* One JSON value at p (no leading whitespace is skipped here).
ParseValue(s, p) ==
    IF p > Len(s) THEN ParseFail(p)
    ELSE IF s[p] = 34 THEN ParseString(s, p + 1, <<>>)
    ELSE IF s[p] = 91
    THEN LET q == SkipWs(s, p + 1)
         IN  IF q <= Len(s) /\ s[q] = 93 THEN ParseOk(JArr(<<>>), q + 1)
             ELSE ParseItems(s, q, <<>>)
    ELSE IF s[p] = 123
    THEN LET q == SkipWs(s, p + 1)
         IN  IF q <= Len(s) /\ s[q] = 125 THEN ParseOk(JObj(<<>>), q + 1)
             ELSE ParseMembers(s, q, <<>>)
    ELSE IF s[p] = 110
    THEN IF Slice(s, p - 1, p + 3) = <<110, 117, 108, 108>>
         THEN ParseOk(JNull, p + 4)
         ELSE ParseFail(p)
    ELSE IF s[p] = 45 \/ IsDigit(s[p]) THEN ParseNumber(s, p)
    ELSE ParseFail(p)

\* Array items from p (whitespace already skipped), up to the closing bracket.
ParseItems(s, p, acc) ==
    LET r == ParseValue(s, p)
        q == SkipWs(s, r.p)
    IN  IF ~r.ok \/ q > Len(s) THEN ParseFail(p)
        ELSE IF s[q] = 93 THEN ParseOk(JArr(Append(acc, r.v)), q + 1)
        ELSE IF s[q] = 44 THEN ParseItems(s, SkipWs(s, q + 1), Append(acc, r.v))
        ELSE ParseFail(q)

\* Object members from p (whitespace already skipped), up to the closing brace.
ParseMembers(s, p, acc) ==
    IF p > Len(s) \/ s[p] # 34 THEN ParseFail(p)
    ELSE LET key == ParseString(s, p + 1, <<>>)
             c == SkipWs(s, key.p)
         IN  IF ~key.ok \/ c > Len(s) \/ s[c] # 58 THEN ParseFail(p)
             ELSE LET r == ParseValue(s, SkipWs(s, c + 1))
                      q == SkipWs(s, r.p)
                      ms == DictSet(acc, key.v.v, r.v)
                  IN  IF ~r.ok \/ q > Len(s) THEN ParseFail(p)
                      ELSE IF s[q] = 125 THEN ParseOk(JObj(ms), q + 1)
                      ELSE IF s[q] = 44 THEN ParseMembers(s, SkipWs(s, q + 1), ms)
                      ELSE ParseFail(q)

\* json.loads(text): one value, whitespace allowed around it, nothing after it;
\* [ok |-> FALSE] stands for JSONDecodeError.
json_loads(text) ==
    LET r == ParseValue(text, SkipWs(text, 1))
    IN  IF r.ok /\ SkipWs(text, r.p) = Len(text) + 1
        THEN [ok |-> TRUE, v |-> r.v]
        ELSE [ok |-> FALSE, v |-> JNull]

(***************************************************************************)
(* Text literals of the sources, as code points.                           *)
(***************************************************************************)
\* b'Content-Length:'
ContentLengthPrefix ==
    <<67, 111, 110, 116, 101, 110, 116, 45, 76, 101, 110, 103, 116, 104, 58>>

\* "\r\n\r\n"
HeaderEnd == <<13, 10, 13, 10>>

S_method == <<109, 101, 116, 104, 111, 100>>

S_params == <<112, 97, 114, 97, 109, 115>>

S_id == <<105, 100>>

S_jsonrpc == <<106, 115, 111, 110, 114, 112, 99>>

S_result == <<114, 101, 115, 117, 108, 116>>

S_error == <<101, 114, 114, 111, 114>>

S_code == <<99, 111, 100, 101>>

S_message == <<109, 101, 115, 115, 97, 103, 101>>

S_initialize == <<105, 110, 105, 116, 105, 97, 108, 105, 122, 101>>

S_tools_list == <<116, 111, 111, 108, 115, 47, 108, 105, 115, 116>>

S_tools_call == <<116, 111, 111, 108, 115, 47, 99, 97, 108, 108>>

S_ping == <<112, 105, 110, 103>>

S_status == <<115, 116, 97, 116, 117, 115>>

S_ok == <<111, 107>>

S_name == <<110, 97, 109, 101>>

S_tools == <<116, 111, 111, 108, 115>>

S_protocolVersion ==
    <<112, 114, 111, 116, 111, 99, 111, 108, 86, 101, 114, 115, 105, 111, 110>>

\* "2.0"
JSONRPC_VERSION == <<50, 46, 48>>

\* "Method not found: "
S_method_not_found ==
    <<77, 101, 116, 104, 111, 100, 32, 110, 111, 116, 32, 102, 111, 117, 110, 100,
      58, 32>>

\* "Unknown tool: "
S_unknown_tool == <<85, 110, 107, 110, 111, 119, 110, 32, 116, 111, 111, 108, 58, 32>>

(***************************************************************************)
(* ShortReadStream (test_jsonrpc.py): a stream over `data` with a cursor   *)
(* `pos` that never returns more than `chunk_size` bytes per read call.    *)
(***************************************************************************)
\* StreamReadline with `end` at the newline instead of after it.
StreamReadline_KeepsNewline(d, p) ==
    LET end == Find(d, 10, p)
    IN  IF end = -1
        THEN [result |-> Slice(d, p, Len(d)), pos |-> Len(d)]
        ELSE [result |-> Slice(d, p, end), pos |-> end]

\* ShortReadStream.readline: [result, pos] after the call.
StreamReadline(d, p) ==
    LET end == Find(d, 10, p) + 1
    IN  IF end = 0
        THEN [result |-> Slice(d, p, Len(d)), pos |-> Len(d)]
        ELSE [result |-> Slice(d, p, end), pos |-> end]

\* StreamRead without `self.pos += to_read`: the cursor stays where it was.
StreamRead_NoAdvance(d, p, c, n) ==
    LET available == Len(d) - p
        to_read == Min(Min(n, available), c)
    IN  [result |-> Slice(d, p, p + to_read), pos |-> p]

\* StreamRead with `self.pos += min(n, available)`: the cursor moves past the
\* bytes asked for, though only a chunk of them is returned.
StreamRead_AdvanceByRequest(d, p, c, n) ==
    LET available == Len(d) - p
        to_read == Min(Min(n, available), c)
    IN  [result |-> Slice(d, p, p + to_read), pos |-> p + Min(n, available)]

\* ShortReadStream.read(n): [result, pos] after the call.
StreamRead(d, p, c, n) ==
    LET available == Len(d) - p
        to_read == Min(Min(n, available), c)
    IN  [result |-> Slice(d, p, p + to_read), pos |-> p + to_read]

\* create_jsonrpc_message: compact JSON, UTF-8, Content-Length header.
create_jsonrpc_message(content_dict) ==
    LET content == json_dumps(content_dict, <<44>>, <<58>>)
        content_bytes == Utf8Encode(content)
        header == ContentLengthPrefix \o <<32>> \o IntToStr(Len(content_bytes))
                  \o HeaderEnd
    IN  Utf8Encode(header) \o content_bytes

(***************************************************************************)
(* NCLMMCPServer.handle_request (nclm_mcp_server.py).  The payloads of     *)
(* initialize, tools/list and the tools are abridged: framing treats them  *)
(* as opaque JSON.                                                         *)
(***************************************************************************)
\* dict.get(key, default)
DictGet(ms, key, default) ==
    IF \E i \in 1..Len(ms) : ms[i].k = key
    THEN ms[CHOOSE i \in 1..Len(ms) : ms[i].k = key].v
    ELSE default

\* str(v) as an f-string formats it (strings, integers and None; containers
\* are rendered as JSON text here).
PyStr(v) ==
    IF v.t = "str" THEN v.v
    ELSE IF v.t = "int" THEN DumpsInt(v.v)
    ELSE IF v.t = "null" THEN <<78, 111, 110, 101>>
    ELSE json_dumps(v, DefaultItemSep, DefaultKeySep)

_success_response(request_id, result) ==
    JObj(<<Member(S_jsonrpc, JStr(JSONRPC_VERSION)),
           Member(S_id, request_id),
           Member(S_result, result)>>)

_error_response(request_id, code, message) ==
    JObj(<<Member(S_jsonrpc, JStr(JSONRPC_VERSION)),
           Member(S_id, request_id),
           Member(S_error, JObj(<<Member(S_code, JInt(code)),
                                  Member(S_message, JStr(message))>>))>>)

handle_initialize(params) ==
    JObj(<<Member(S_protocolVersion, JStr(<<50, 48, 50, 52, 45, 49, 49, 45, 48, 53>>))>>)

handle_tools_list == JObj(<<Member(S_tools, JArr(<<>>))>>)

\* The tool names handle_tool_call dispatches on.
ToolNames ==
    {<<110, 99, 108, 109, 95, 105, 110, 102, 101, 114>>,
     <<110, 99, 108, 109, 95, 97, 110, 97, 108, 121, 122, 101>>,
     <<110, 99, 108, 109, 95, 99, 99, 99, 101>>,
     <<113, 117, 97, 110, 116, 117, 109, 95, 99, 105, 114, 99, 117, 105, 116>>,
     <<115, 119, 97, 114, 109, 95, 116, 97, 115, 107>>,
     <<108, 97, 109, 98, 100, 97, 95, 112, 104, 105, 95, 118, 97, 108, 105, 100, 97, 116, 101>>}

S_content == <<99, 111, 110, 116, 101, 110, 116>>

S_arguments == <<97, 114, 103, 117, 109, 101, 110, 116, 115>>

S_prompt == <<112, 114, 111, 109, 112, 116>>

S_agents == <<97, 103, 101, 110, 116, 115>>

\* Whether `from dnalang_sdk import ...` inside a tool succeeds: "missing"
\* (ImportError, the tool falls back), "works", or "fails" (the imported code
\* raises an exception other than ImportError).
VARIABLE sdk

SdkStates == {"missing", "works", "fails"}

\* type(v).__name__
PyTypeName(v) ==
    IF v.t = "int" THEN <<105, 110, 116>>
    ELSE IF v.t = "str" THEN <<115, 116, 114>>
    ELSE IF v.t = "arr" THEN <<108, 105, 115, 116>>
    ELSE IF v.t = "obj" THEN <<100, 105, 99, 116>>
    ELSE IF v.t = "tuple" THEN <<116, 117, 112, 108, 101>>
    ELSE <<78, 111, 110, 101, 84, 121, 112, 101>>

\* str(e) of the AttributeError for v.attr on a value without that attribute:
\* '<type>' object has no attribute '<attr>'
NoAttribute(v, attr) ==
    <<39>> \o PyTypeName(v)
    \o <<39, 32, 111, 98, 106, 101, 99, 116, 32, 104, 97, 115, 32,
        110, 111, 32, 97, 116, 116, 114, 105, 98, 117, 116, 101, 32, 39>>
    \o attr \o <<39>>

\* str(e) of the AttributeError for v.get: args.get and params.get.
NoGet(v) == NoAttribute(v, <<103, 101, 116>>)

\* A tool raised: `evolved` counts the _evolve_consciousness calls made first.
ToolRaised(message, evolved) ==
    [raised |-> TRUE, message |-> message, result |-> JNull, evolved |-> evolved]

\* A tool returned its content (text abridged).
ToolReturned(evolved) ==
    [raised |-> FALSE, message |-> <<>>,
     result |-> JObj(<<Member(S_content, JArr(<<>>))>>), evolved |-> evolved]

\* An exception raised inside the imported SDK (its text abridged to
\* "sdk error"), after the metrics were evolved.
SdkRaised == ToolRaised(<<115, 100, 107, 32, 101, 114, 114, 111, 114>>, 1)

\* The SDK missing, the fallback text takes prompt[:100]: a value that cannot
\* be sliced raises TypeError, '<type>' object is not subscriptable (a dict
\* prompt, which raises another error, is not among the modelled inputs).
\* The text a working SDK returns is abridged.
_nclm_infer(args) ==
    IF args.t # "obj" THEN ToolRaised(NoGet(args), 0)
    ELSE LET prompt == DictGet(args.v, S_prompt, JStr(<<>>))
             not_subscriptable ==
                 <<39, 32, 111, 98, 106, 101, 99, 116, 32, 105, 115, 32, 110, 111, 116,
                   32, 115, 117, 98, 115, 99, 114, 105, 112, 116, 97, 98, 108, 101>>
         IN  IF sdk = "fails" THEN SdkRaised
             ELSE IF sdk = "missing" /\ prompt.t \notin {"str", "arr", "tuple"}
             THEN ToolRaised(<<39>> \o PyTypeName(prompt) \o not_subscriptable, 1)
             ELSE ToolReturned(1)

\* _perform_analysis calls content.count and content.split.
_nclm_analyze(args) ==
    IF args.t # "obj" THEN ToolRaised(NoGet(args), 0)
    ELSE LET content == DictGet(args.v, S_content, JStr(<<>>))
         IN  IF content.t = "str" THEN ToolReturned(1)
             ELSE IF content.t \in {"arr", "tuple"}
             THEN ToolRaised(NoAttribute(content, <<115, 112, 108, 105, 116>>), 1)
             ELSE ToolRaised(NoAttribute(content, <<99, 111, 117, 110, 116>>), 1)

_nclm_ccce == ToolReturned(1)

\* Everything after the args.get calls runs under `except Exception`.
_quantum_circuit(args) ==
    IF args.t # "obj" THEN ToolRaised(NoGet(args), 0)
    ELSE ToolReturned(0)

\* len(agents) when the SDK is imported, ', '.join(agents) in either case
\* (a dict joins its keys, which are strings here).  The TypeError texts:
\* object of type '<type>' has no len(); can only join an iterable;
\* sequence item <i>: expected str instance, <type> found.
_swarm_task(args) ==
    IF args.t # "obj" THEN ToolRaised(NoGet(args), 0)
    ELSE LET agents == DictGet(args.v, S_agents, JArr(<<>>))
             sized == agents.t \in {"str", "arr", "tuple"}
             bad == IF sized /\ agents.t # "str"
                    THEN { i \in 1..Len(agents.v) : agents.v[i].t # "str" }
                    ELSE {}
             first == CHOOSE i \in bad : \A j \in bad : i <= j
             object_of_type ==
                 <<111, 98, 106, 101, 99, 116, 32, 111, 102, 32, 116, 121, 112, 101, 32, 39>>
             has_no_len == <<39, 32, 104, 97, 115, 32, 110, 111, 32, 108, 101, 110, 40, 41>>
             join_iterable ==
                 <<99, 97, 110, 32, 111, 110, 108, 121, 32, 106, 111, 105, 110, 32, 97,
                   110, 32, 105, 116, 101, 114, 97, 98, 108, 101>>
             sequence_item ==
                 <<115, 101, 113, 117, 101, 110, 99, 101, 32, 105, 116, 101, 109, 32>>
             expected_str ==
                 <<58, 32, 101, 120, 112, 101, 99, 116, 101, 100, 32, 115, 116, 114, 32,
                   105, 110, 115, 116, 97, 110, 99, 101, 44, 32>>
             found == <<32, 102, 111, 117, 110, 100>>
         IN  IF sdk = "fails" THEN SdkRaised
             ELSE IF sdk = "works" /\ agents.t \notin {"str", "arr", "tuple", "obj"}
             THEN ToolRaised(object_of_type \o PyTypeName(agents) \o has_no_len, 1)
             ELSE IF ~sized /\ agents.t # "obj"
             THEN ToolRaised(join_iterable, 1)
             ELSE IF bad # {}
             THEN ToolRaised(sequence_item \o IntToStr(first - 1) \o expected_str
                             \o PyTypeName(agents.v[first]) \o found, 1)
             ELSE ToolReturned(1)

_lambda_phi_validate(args) ==
    IF args.t # "obj" THEN ToolRaised(NoGet(args), 0)
    ELSE ToolReturned(0)

\* handle_tool_call: [raised, message, result, evolved]; a params value
\* without .get, an unknown tool name and an exception inside a tool raise
\* into handle_request's try block.
handle_tool_call(params) ==
    IF params.t # "obj" THEN ToolRaised(NoGet(params), 0)
    ELSE LET tool_name == DictGet(params.v, S_name, JNull)
             arguments == DictGet(params.v, S_arguments, JObj(<<>>))
         IN  IF tool_name = JStr(<<110, 99, 108, 109, 95, 105, 110, 102, 101, 114>>) THEN _nclm_infer(arguments)
             ELSE IF tool_name = JStr(<<110, 99, 108, 109, 95, 97, 110, 97, 108, 121, 122, 101>>) THEN _nclm_analyze(arguments)
             ELSE IF tool_name = JStr(<<110, 99, 108, 109, 95, 99, 99, 99, 101>>) THEN _nclm_ccce
             ELSE IF tool_name = JStr(<<113, 117, 97, 110, 116, 117, 109, 95, 99, 105, 114, 99, 117, 105, 116>>)
             THEN _quantum_circuit(arguments)
             ELSE IF tool_name = JStr(<<115, 119, 97, 114, 109, 95, 116, 97, 115, 107>>) THEN _swarm_task(arguments)
             ELSE IF tool_name = JStr(<<108, 97, 109, 98, 100, 97, 95, 112, 104, 105, 95, 118, 97, 108, 105, 100, 97, 116, 101>>)
             THEN _lambda_phi_validate(arguments)
             ELSE ToolRaised(S_unknown_tool \o PyStr(tool_name), 0)

\* What a handle_request call did: raised (an exception left the call),
\* response, handler (the handler method it invoked, "none" if none) and
\* evolved (the number of _evolve_consciousness calls it made).
Handled(response, handler, evolved) ==
    [raised |-> FALSE, response |-> response, handler |-> handler,
     evolved |-> evolved]

\* handle_request without the `except Exception` clause: an exception of a
\* handler leaves the call.
handle_request_NoExcept(request) ==
    IF request.t # "obj"
    THEN [raised |-> TRUE, response |-> JNull, handler |-> "none", evolved |-> 0]
    ELSE LET method == DictGet(request.v, S_method, JStr(<<>>))
             params == DictGet(request.v, S_params, JObj(<<>>))
             request_id == DictGet(request.v, S_id, JNull)
             call == handle_tool_call(params)
         IN  IF method = JStr(S_initialize)
             THEN Handled(_success_response(request_id, handle_initialize(params)),
                          "handle_initialize", 0)
             ELSE IF method = JStr(S_tools_list)
             THEN Handled(_success_response(request_id, handle_tools_list),
                          "handle_tools_list", 0)
             ELSE IF method = JStr(S_tools_call)
             THEN IF call.raised
                  THEN [raised |-> TRUE, response |-> JNull,
                        handler |-> "handle_tool_call", evolved |-> call.evolved]
                  ELSE Handled(_success_response(request_id, call.result),
                               "handle_tool_call", call.evolved)
             ELSE IF method = JStr(S_ping)
             THEN Handled(_success_response(request_id,
                                            JObj(<<Member(S_status, JStr(S_ok))>>)),
                          "none", 0)
             ELSE Handled(_error_response(request_id, -32601,
                                          S_method_not_found \o PyStr(method)),
                          "none", 0)

\* handle_request with _evolve_consciousness called on every request, before
\* the dispatch on the method.
handle_request_EvolvesFirst(request) ==
    IF request.t # "obj"
    THEN [raised |-> TRUE, response |-> JNull, handler |-> "none", evolved |-> 0]
    ELSE LET method == DictGet(request.v, S_method, JStr(<<>>))
             params == DictGet(request.v, S_params, JObj(<<>>))
             request_id == DictGet(request.v, S_id, JNull)
             call == handle_tool_call(params)
         IN  IF method = JStr(S_initialize)
             THEN Handled(_success_response(request_id, handle_initialize(params)),
                          "handle_initialize", 1)
             ELSE IF method = JStr(S_tools_list)
             THEN Handled(_success_response(request_id, handle_tools_list),
                          "handle_tools_list", 1)
             ELSE IF method = JStr(S_tools_call)
             THEN Handled(IF call.raised
                          THEN _error_response(request_id, -32000, call.message)
                          ELSE _success_response(request_id, call.result),
                          "handle_tool_call", call.evolved + 1)
             ELSE IF method = JStr(S_ping)
             THEN Handled(_success_response(request_id,
                                            JObj(<<Member(S_status, JStr(S_ok))>>)),
                          "none", 1)
             ELSE Handled(_error_response(request_id, -32601,
                                          S_method_not_found \o PyStr(method)),
                          "none", 1)

\* handle_request: raised stands for the AttributeError of request.get on a
\* value that is not a dict, thrown before the try block.
handle_request(request) ==
    IF request.t # "obj"
    THEN [raised |-> TRUE, response |-> JNull, handler |-> "none", evolved |-> 0]
    ELSE LET method == DictGet(request.v, S_method, JStr(<<>>))
             params == DictGet(request.v, S_params, JObj(<<>>))
             request_id == DictGet(request.v, S_id, JNull)
             call == handle_tool_call(params)
         IN  IF method = JStr(S_initialize)
             THEN Handled(_success_response(request_id, handle_initialize(params)),
                          "handle_initialize", 0)
             ELSE IF method = JStr(S_tools_list)
             THEN Handled(_success_response(request_id, handle_tools_list),
                          "handle_tools_list", 0)
             ELSE IF method = JStr(S_tools_call)
             THEN Handled(IF call.raised
                          THEN _error_response(request_id, -32000, call.message)
                          ELSE _success_response(request_id, call.result),
                          "handle_tool_call", call.evolved)
             ELSE IF method = JStr(S_ping)
             THEN Handled(_success_response(request_id,
                                            JObj(<<Member(S_status, JStr(S_ok))>>)),
                          "none", 0)
             ELSE Handled(_error_response(request_id, -32601,
                                          S_method_not_found \o PyStr(method)),
                          "none", 0)

(***************************************************************************)
(* The stdio loop of main() (nclm_mcp_server.py).                          *)
(***************************************************************************)
\* reader_read with `n <= 0` taken as "read until end of stream".
reader_read_ZeroReadsAll(d, p, c, n) ==
    IF n <= 0 THEN [result |-> Slice(d, p, Len(d)), pos |-> Len(d)]
    ELSE StreamRead(d, p, c, n)

\* reader.read(n) of the asyncio stream: up to n bytes of what the pipe has
\* delivered (at most c per call); n < 0 reads until end of stream.
reader_read(d, p, c, n) ==
    IF n < 0 THEN [result |-> Slice(d, p, Len(d)), pos |-> Len(d)]
    ELSE StreamRead(d, p, c, n)

\* header.decode().split(':')[1]: the text between the first colon and the
\* next one (or the end of the line).
HeaderField(text) ==
    LET a == Find(text, 58, 0)
        b == Find(text, 58, a + 1)
    IN  Slice(text, a + 1, IF b = -1 THEN Len(text) ELSE b)

\* WriteMessage with a line end written after the body.
WriteMessage_TrailingNewline(response) ==
    LET response_bytes == Utf8Encode(json_dumps(response, DefaultItemSep, DefaultKeySep))
    IN  Utf8Encode(ContentLengthPrefix \o <<32>> \o IntToStr(Len(response_bytes))
                   \o HeaderEnd)
        \o response_bytes \o <<10>>

\* WriteMessage with the header line ended once: no separator line.
WriteMessage_NoSeparator(response) ==
    LET response_bytes == Utf8Encode(json_dumps(response, DefaultItemSep, DefaultKeySep))
    IN  Utf8Encode(ContentLengthPrefix \o <<32>> \o IntToStr(Len(response_bytes))
                   \o <<13, 10>>)
        \o response_bytes

\* The bytes the response occupies on stdout: header write, then body write.
WriteMessage(response) ==
    LET response_bytes == Utf8Encode(json_dumps(response, DefaultItemSep, DefaultKeySep))
    IN  Utf8Encode(ContentLengthPrefix \o <<32>> \o IntToStr(Len(response_bytes))
                   \o HeaderEnd)
        \o response_bytes

\* What a pass through the loop body did: read_issued tells whether
\* reader.read(content_length) was called, body_at the cursor it was called at.
NoRead == [status |-> "none", exc |-> "", start |-> 0, stop |-> 0, n |-> -1,
           read_issued |-> FALSE, body_at |-> 0,
           content |-> <<>>, value |-> JNull]

\* The loop body after the end-of-stream check, for the header line read at
\* cursor p.  status: "blank" (empty line, continue), "skipped" (line without
\* the Content-Length prefix: no branch is taken), "raised" (an exception
\* reached `except Exception`: logged, break), "handled" (request read,
\* handled and answered).
IterationAfterHeader(d, p, c, header) ==
    LET htext == Utf8Decode(header.result, <<>>)
        length == ParseInt(HeaderField(htext.text))
        blank == StreamReadline(d, header.pos)
        content == reader_read(d, blank.pos, c, length.v)
        ctext == Utf8Decode(content.result, <<>>)
        request == json_loads(ctext.text)
        handled == handle_request(request.v)
        base == [NoRead EXCEPT !.start = p]
        body == [base EXCEPT !.read_issued = TRUE, !.body_at = blank.pos,
                             !.stop = content.pos, !.n = length.v,
                             !.content = content.result]
    IN  IF Strip(header.result) = <<>>
        THEN [base EXCEPT !.status = "blank", !.stop = header.pos]
        ELSE IF ~IsPrefix(ContentLengthPrefix, header.result)
        THEN [base EXCEPT !.status = "skipped", !.stop = header.pos]
        ELSE IF ~htext.ok
        THEN [base EXCEPT !.status = "raised", !.exc = "UnicodeDecodeError",
                          !.stop = header.pos]
        ELSE IF ~length.ok
        THEN [base EXCEPT !.status = "raised", !.exc = "ValueError",
                          !.stop = header.pos]
        ELSE IF ~ctext.ok
        THEN [body EXCEPT !.status = "raised", !.exc = "UnicodeDecodeError"]
        ELSE IF ~request.ok
        THEN [body EXCEPT !.status = "raised", !.exc = "JSONDecodeError"]
        ELSE IF handled.raised
        THEN [body EXCEPT !.status = "raised", !.exc = "AttributeError",
                          !.value = request.v]
        ELSE [body EXCEPT !.status = "handled", !.value = request.v]

\* MainIteration without `if not header: break`.
MainIteration_NoEofCheck(d, p, c) ==
    IterationAfterHeader(d, p, c, StreamReadline(d, p))

\* One pass through the body of `while True`, from the header readline at
\* cursor p; status "eof" is the break on an empty header line.
MainIteration(d, p, c) ==
    LET header == StreamReadline(d, p)
    IN  IF header.result = <<>>
        THEN [NoRead EXCEPT !.status = "eof", !.start = p, !.stop = header.pos]
        ELSE IterationAfterHeader(d, p, c, header)

(***************************************************************************)
(* State.                                                                  *)
(***************************************************************************)
VARIABLES
    data,        \* ShortReadStream.data: every byte the stream will deliver
    pos,         \* ShortReadStream.pos: the read cursor (0-based)
    chunk_size,  \* ShortReadStream.chunk_size: most bytes one read call returns
    sent,        \* what the peer wrote: a sequence of [v, frame]
    cut,         \* how many bytes before the end of the last frame the stream closes
    pc,          \* main(): "running", "stopped" (break at EOF), "failed" (break in except)
    rd,          \* main(): what the latest pass through the loop body read
    out,         \* main(): the bytes written to stdout
    delivered,   \* main(): the requests handed to handle_request, in order
    written,     \* main(): the responses written, in order
    cpc,         \* _read_message: "idle", "body", "failed"; "none" without a client
    xpc,         \* _read_exact: "off", "loop", "returned", "raised"
    need,        \* _read_exact: the byte count N asked for
    acc,         \* _read_exact: the bytes accumulated so far
    xstart,      \* _read_exact: the cursor when the call began
    reads,       \* _read_exact: read calls issued by the current call
    calls,       \* number of _read_exact calls begun on this stream
    eof_error,   \* _read_exact: the end-of-stream error the current call raised
    results,     \* _read_message: the values returned, in order
    fault,       \* _read_message: the error kind that ended the failed read
    wpc,         \* write block, per caller: "writing", "draining", "done"
    wresp,       \* write block, per caller: the response it writes
    wstep,       \* write block, per caller: the runs of write calls completed
    wbuf,        \* StreamWriter transport: bytes written and not yet on the pipe
    wire,        \* the bytes on the stdout pipe
    wlog,        \* the responses in the order their callers began to write
    circuit,     \* QuantumCircuit: [num_qubits, gates, name, metadata]
    restored,    \* QuantumCircuit.from_json(circuit.to_json()), once computed
    metrics,     \* NCLMMCPServer.metrics: the _evolve_consciousness calls applied to it
    session_history, \* NCLMMCPServer.session_history
    answered,    \* what the latest handle_request call was given and did
    served,      \* number of handle_request calls made on this server
    lpc,         \* main(), per running loop: the await it stands at
    llen,        \* main(), per running loop: content_length of the read in progress
    rlog,        \* the cursor-consuming calls made on stdin, in order
    server_mode, \* CopilotConfig.server_mode
    cli_process, \* DNALangCopilotClient._cli_process: 0 for None, else the child's number
    children,    \* the child processes spawned so far: the state of each
    stream_open, \* the pipes to the held child are open
    lifecycle    \* what the latest start() or close() call did

streamVars == <<data, pos, chunk_size, sent, cut>>

serverVars == <<pc, rd, out, delivered, written>>

exactVars == <<xpc, need, acc, xstart, reads, calls, eof_error>>

clientVars == <<cpc, results, fault>>

writerVars == <<wpc, wresp, wstep, wbuf, wire, wlog>>

circuitVars == <<circuit, restored>>

framingVars == <<streamVars, serverVars, exactVars, clientVars>>

mcpVars == <<sdk, metrics, session_history, answered, served>>

loopVars == <<lpc, llen, rlog>>

procVars == <<server_mode, cli_process, children, stream_open, lifecycle>>

\* The state of the request handler, of the loop taken await by await, and
\* of the client that owns a child process.
lateVars == <<mcpVars, loopVars, procVars>>

\* The state outside the framing reader.
extVars == <<writerVars, circuitVars, lateVars>>

vars == <<framingVars, extVars>>

ServerIdle ==
    /\ pc = "off"
    /\ rd = NoRead
    /\ out = <<>>
    /\ delivered = <<>>
    /\ written = <<>>

\* No end-of-stream error has been raised.
NoEofError == [raised |-> FALSE, obtained |-> 0, required |-> 0]

ExactIdle ==
    /\ xpc = "off"
    /\ eof_error = NoEofError
    /\ need = 0
    /\ acc = <<>>
    /\ xstart = 0
    /\ reads = 0
    /\ calls = 0

ClientIdle(state) ==
    /\ cpc = state
    /\ results = <<>>
    /\ fault = "none"

WriterIdle ==
    /\ wpc = <<>>
    /\ wresp = <<>>
    /\ wstep = <<>>
    /\ wbuf = <<>>
    /\ wire = <<>>
    /\ wlog = <<>>

\* No circuit has been constructed, none restored.
NoCircuit == [num_qubits |-> JNull, gates |-> JArr(<<>>), name |-> JNull,
              metadata |-> JObj(<<>>)]

NoRestore == [done |-> FALSE, ok |-> FALSE, circuit |-> NoCircuit]

CircuitIdle ==
    /\ circuit = NoCircuit
    /\ restored = NoRestore

\* No handle_request call has been made.
NoAnswer == [request |-> JNull, raised |-> FALSE, response |-> JNull,
             handler |-> "none", evolved |-> 0]

\* NCLMMCPServer.__init__, in an environment without the SDK.
McpIdle ==
    /\ sdk = "missing"
    /\ metrics = 0
    /\ session_history = <<>>
    /\ answered = NoAnswer
    /\ served = 0

LoopIdle ==
    /\ lpc = <<>>
    /\ llen = <<>>
    /\ rlog = <<>>

\* No start() or close() call has been made.
NoLifecycle == [op |-> "none", before |-> 0, after |-> 0, spawned |-> FALSE,
                cli_found |-> FALSE, in_time |-> FALSE, signals |-> <<>>]

\* DNALangCopilotClient.__init__
ProcIdle ==
    /\ server_mode = TRUE
    /\ cli_process = 0
    /\ children = <<>>
    /\ stream_open = FALSE
    /\ lifecycle = NoLifecycle

LateIdle == McpIdle /\ LoopIdle /\ ProcIdle

ExtIdle == WriterIdle /\ CircuitIdle /\ LateIdle

(***************************************************************************)
(* What the peer may put on the stream.                                    *)
(***************************************************************************)
\* {"id": 1, "method": "ping"}
PingRequest == JObj(<<Member(S_id, JInt(1)), Member(S_method, JStr(S_ping))>>)

\* {"id": 2, "method": "x"}
UnknownRequest == JObj(<<Member(S_id, JInt(2)), Member(S_method, JStr(<<120>>))>>)

PeerValues == {JInt(12), PingRequest, UnknownRequest}

\* A header line (with its line end), the separator line and a body.
RawFrame(header_line, body) == header_line \o <<13, 10>> \o body

LengthLine(n) == ContentLengthPrefix \o <<32>> \o IntToStr(n) \o <<13, 10>>

Sent(value, frame) == [v |-> value, frame |-> frame]

PeerFrames ==
    { Sent(v, create_jsonrpc_message(v)) : v \in PeerValues }
    \cup { Sent(JStr(<<233>>),
                RawFrame(LengthLine(4), <<34, 195, 169, 34>>)),   \* raw UTF-8
           Sent(JNull, RawFrame(LengthLine(2), <<49, 120>>)),     \* 1x: not JSON
           Sent(JNull, RawFrame(LengthLine(3), <<34, 255, 34>>)), \* not UTF-8
           Sent(JNull, RawFrame(LengthLine(0), <<>>)),            \* no body
           \* content-length: 2 (wrong case)
           Sent(JNull,
                RawFrame(<<99, 111, 110, 116, 101, 110, 116, 45, 108, 101, 110, 103,
                           116, 104, 58, 32, 50, 13, 10>>, <<49, 50>>)),
           \* Content-Length: x
           Sent(JNull,
                RawFrame(ContentLengthPrefix \o <<32, 120, 13, 10>>, <<49, 50>>)),
           \* Content-Length: -1
           Sent(JNull,
                RawFrame(ContentLengthPrefix \o <<32, 45, 49, 13, 10>>, <<49, 50>>)),
           \* Content-Length: +2
           Sent(JNull,
                RawFrame(ContentLengthPrefix \o <<32, 43, 50, 13, 10>>, <<49, 50>>)),
           \* a line x where a header is expected, and a blank line
           Sent(JNull, RawFrame(<<120, 13, 10>>, <<>>)) }

SeqsUpTo(S, n) == UNION { [1..k -> S] : k \in 0..n }

Frames(ss) == [i \in 1..Len(ss) |-> ss[i].frame]

\* The bytes of the frames ss, closed `drop` bytes early.
StreamOf(ss, drop) ==
    LET full == Concat(Frames(ss)) IN SubSeq(full, 1, Max(Len(full) - drop, 0))

\* The default chunk_size of ShortReadStream.
DefaultChunkSize == 32768

ChunkSizes == (1..MaxChunk) \cup {DefaultChunkSize}

(***************************************************************************)
(* The MCP server reading the stream: main().                              *)
(***************************************************************************)
Init ==
    /\ sent \in SeqsUpTo(PeerFrames, MaxMsgs)
    /\ cut \in 0..MaxDrop
    /\ data = StreamOf(sent, cut)
    /\ pos = 0
    /\ chunk_size \in ChunkSizes
    /\ pc = "running"
    /\ rd = NoRead
    /\ out = <<>>
    /\ delivered = <<>>
    /\ written = <<>>
    /\ ExactIdle
    /\ ClientIdle("none")
    /\ ExtIdle

\* One pass through the body of the `while True` loop of main().
MainLoop ==
    /\ pc = "running"
    /\ \E r \in {MainIteration(data, pos, chunk_size)} :
         \E handled \in {handle_request(r.value)} :
           /\ rd' = r
           /\ metrics' = IF r.status = "handled" THEN metrics + handled.evolved
                         ELSE metrics
           /\ pos' = r.stop
           /\ pc' = IF r.status = "eof" THEN "stopped"
                    ELSE IF r.status = "raised" THEN "failed"
                    ELSE "running"
           /\ delivered' = IF r.status = "handled"
                              \/ (r.status = "raised" /\ r.exc = "AttributeError")
                           THEN Append(delivered, r.value)
                           ELSE delivered
           /\ out' = IF r.status = "handled"
                     THEN out \o WriteMessage(handled.response) ELSE out
           /\ written' = IF r.status = "handled" THEN Append(written, handled.response)
                         ELSE written
    /\ UNCHANGED <<data, chunk_size, sent, cut, exactVars, clientVars, writerVars,
                   circuitVars, sdk, session_history, answered, served, loopVars,
                   procVars>>

Next == MainLoop

Spec == Init /\ [][Next]_vars

(***************************************************************************)
(* JsonRpcClient._read_exact: the loop over stream.read.                   *)
(***************************************************************************)
\* The call _read_exact(n) begins with the stream cursor at `cursor`.
BeginReadExact(n, cursor) ==
    /\ xpc' = "loop"
    /\ need' = n
    /\ acc' = <<>>
    /\ xstart' = cursor
    /\ reads' = 0
    /\ eof_error' = NoEofError

\* The end-of-stream error: it carries the bytes obtained and required.
EofError(got, required) == [raised |-> TRUE, obtained |-> got, required |-> required]

\* ReadExactTurn closing the stream when it meets the end of the stream.
ReadExactTurn_ClosesAtEof(count) ==
    /\ LET chunk == StreamRead(data, pos, chunk_size, count)
       IN  /\ pos' = chunk.pos
           /\ reads' = reads + 1
           /\ IF chunk.result = <<>>
              THEN /\ xpc' = "raised"
                   /\ acc' = acc
                   /\ eof_error' = EofError(Len(acc), need)
                   /\ cpc' = IF cpc = "body" THEN "failed" ELSE cpc
                   /\ fault' = IF cpc = "body" THEN "EndOfStream" ELSE fault
                   /\ stream_open' = FALSE
              ELSE /\ xpc' = "loop"
                   /\ acc' = acc \o chunk.result
                   /\ UNCHANGED <<eof_error, cpc, fault, stream_open>>
    /\ UNCHANGED <<data, chunk_size, sent, cut, need, xstart, calls, results,
                   serverVars, writerVars, circuitVars, mcpVars, loopVars,
                   server_mode, cli_process, children, lifecycle>>

\* One read call of the loop for up to `count` bytes: an empty chunk is the
\* end of the stream and raises the end-of-stream error, which a _read_message
\* in progress passes on to its caller.
ReadExactTurn(count) ==
    /\ LET chunk == StreamRead(data, pos, chunk_size, count)
       IN  /\ pos' = chunk.pos
           /\ reads' = reads + 1
           /\ IF chunk.result = <<>>
              THEN /\ xpc' = "raised"
                   /\ acc' = acc
                   /\ eof_error' = EofError(Len(acc), need)
                   /\ cpc' = IF cpc = "body" THEN "failed" ELSE cpc
                   /\ fault' = IF cpc = "body" THEN "EndOfStream" ELSE fault
              ELSE /\ xpc' = "loop"
                   /\ acc' = acc \o chunk.result
                   /\ UNCHANGED <<eof_error, cpc, fault>>
    /\ UNCHANGED <<data, chunk_size, sent, cut, need, xstart, calls, results,
                   serverVars, extVars>>

\* ReadExactLoop as a loop that reads before it tests the count: the first
\* read call is issued even when no byte is asked for.
ReadExactLoop_ReadsFirst ==
    /\ xpc = "loop"
    /\ (Len(acc) < need \/ reads = 0)
    /\ ReadExactTurn(need - Len(acc))

\* ReadExactLoop reading again after an empty chunk (up to MaxNeed + 2 read
\* calls) in place of raising.
ReadExactLoop_RetryOnEmpty ==
    /\ xpc = "loop"
    /\ Len(acc) < need
    /\ reads <= MaxNeed + 2
    /\ LET chunk == StreamRead(data, pos, chunk_size, need - Len(acc))
       IN  /\ pos' = chunk.pos
           /\ reads' = reads + 1
           /\ acc' = acc \o chunk.result
    /\ UNCHANGED <<data, chunk_size, sent, cut, xpc, need, xstart, calls, eof_error,
                   clientVars, serverVars, extVars>>

\* One turn of the loop: while fewer than N bytes are accumulated, read up to
\* the remaining count.
ReadExactLoop ==
    /\ xpc = "loop"
    /\ Len(acc) < need
    /\ ReadExactTurn(need - Len(acc))

\* The accumulated length equals N: the call returns the bytes.
ReadExactReturn ==
    /\ xpc = "loop"
    /\ Len(acc) = need
    /\ xpc' = "returned"
    /\ UNCHANGED <<streamVars, need, acc, xstart, reads, calls, eof_error, clientVars,
                   serverVars, extVars>>

\* A test calls _read_exact(n) directly on the client's stream.
CallReadExact ==
    /\ cpc = "none"
    /\ xpc \in {"off", "returned"}
    /\ calls < MaxCalls
    /\ \E n \in 0..MaxNeed : BeginReadExact(n, pos)
    /\ calls' = calls + 1
    /\ UNCHANGED <<streamVars, clientVars, serverVars, extVars>>

\* Streams of distinct bytes 1, 2, ... and of one repeated byte.
ExactContents ==
    { [i \in 1..k |-> i] : k \in 0..MaxNeed } \cup { [i \in 1..k |-> 120] : k \in 1..MaxNeed }

InitExact ==
    /\ data \in ExactContents
    /\ pos = 0
    /\ chunk_size \in ChunkSizes
    /\ sent = <<>>
    /\ cut = 0
    /\ ServerIdle
    /\ ExactIdle
    /\ ClientIdle("none")
    /\ ExtIdle

NextExact == CallReadExact \/ ReadExactLoop \/ ReadExactReturn

SpecExact == InitExact /\ [][NextExact]_vars

\* A call of _read_exact that has begun runs on: the caller is blocked in it.
SpecExactLive ==
    SpecExact /\ WF_vars(ReadExactLoop) /\ WF_vars(ReadExactReturn)

(***************************************************************************)
(* JsonRpcClient._read_message: header line, separator line, body, decode. *)
(***************************************************************************)
\* The text after the Content-Length: prefix, trimmed.
LengthText(header_line) ==
    Strip(SubSeq(header_line, Len(ContentLengthPrefix) + 1, Len(header_line)))

\* Steps 1 to 3 and the call of _read_exact: the header line is read and
\* parsed, the separator line is read and discarded.
ReadMessageHeader ==
    /\ cpc = "idle"
    /\ LET header == StreamReadline(data, pos)
           blank == StreamReadline(data, header.pos)
       IN  IF header.result = <<>>
           THEN /\ pos' = header.pos
                /\ cpc' = "failed"
                /\ fault' = "EndOfStream"
                /\ UNCHANGED <<xpc, need, acc, xstart, reads, eof_error>>
           ELSE IF ~IsPrefix(ContentLengthPrefix, header.result)
                   \/ ~AllDigits(LengthText(header.result))
           THEN /\ pos' = header.pos
                /\ cpc' = "failed"
                /\ fault' = "MalformedHeader"
                /\ UNCHANGED <<xpc, need, acc, xstart, reads, eof_error>>
           ELSE IF blank.result = <<>>
           THEN /\ pos' = blank.pos
                /\ cpc' = "failed"
                /\ fault' = "EndOfStream"
                /\ UNCHANGED <<xpc, need, acc, xstart, reads, eof_error>>
           ELSE /\ pos' = blank.pos
                /\ cpc' = "body"
                /\ fault' = fault
                /\ BeginReadExact(DigitsValue(LengthText(header.result), 0), blank.pos)
    /\ UNCHANGED <<data, chunk_size, sent, cut, calls, results, serverVars, extVars>>

\* Steps 5 and 6: the N bytes are decoded as UTF-8 and parsed as JSON.
ReadMessageDecode ==
    /\ cpc = "body"
    /\ xpc = "returned"
    /\ LET text == Utf8Decode(acc, <<>>)
           value == json_loads(text.text)
       IN  IF text.ok /\ value.ok
           THEN /\ results' = Append(results, value.v)
                /\ cpc' = "idle"
                /\ fault' = fault
           ELSE /\ results' = results
                /\ cpc' = "failed"
                /\ fault' = "DecodeError"
    /\ xpc' = "off"
    /\ UNCHANGED <<streamVars, need, acc, xstart, reads, calls, eof_error, serverVars, extVars>>

\* The values the writers frame for the client.
ClientValues ==
    { JInt(-3),
      JArr(<<JInt(12), JNull>>),
      JObj(<<Member(S_id, JStr(<<233, 34>>))>>) }

ClientFrames ==
    { Sent(v, create_jsonrpc_message(v)) : v \in ClientValues }
    \cup { Sent(v, WriteMessage(v)) : v \in ClientValues }

InitClient ==
    /\ sent \in SeqsUpTo(ClientFrames, MaxMsgs)
    /\ cut \in 0..MaxDrop
    /\ data = StreamOf(sent, cut)
    /\ pos = 0
    /\ chunk_size \in ChunkSizes
    /\ ServerIdle
    /\ ExactIdle
    /\ ClientIdle("idle")
    /\ ExtIdle

NextClient == ReadMessageHeader \/ ReadExactLoop \/ ReadExactReturn \/ ReadMessageDecode

SpecClient == InitClient /\ [][NextClient]_vars

(***************************************************************************)
(* The write block of main() (json.dumps, writer.write of the header,      *)
(* writer.write of the body, await writer.drain()) run by several asyncio  *)
(* tasks on one StreamWriter.  A task runs without interruption from one   *)
(* await to the next; the event loop moves the transport's buffer to the   *)
(* pipe in pieces in between.  main() itself runs the block from a single  *)
(* task, its `while True` loop.                                            *)
(***************************************************************************)
FramingIdle ==
    /\ data = <<>>
    /\ pos = 0
    /\ chunk_size = DefaultChunkSize
    /\ sent = <<>>
    /\ cut = 0
    /\ ServerIdle
    /\ ExactIdle
    /\ ClientIdle("none")

WriterTasks == 1..MaxWriters

\* The responses the callers write: those of handle_request.
WriterResponses ==
    { handle_request(v).response : v \in {PingRequest, UnknownRequest} }

\* WriterSteps with `await writer.drain()` after the header write as well.
WriterSteps_DrainAfterHeader(response) ==
    LET response_bytes == Utf8Encode(json_dumps(response, DefaultItemSep, DefaultKeySep))
        header == Utf8Encode(ContentLengthPrefix \o <<32>>
                             \o IntToStr(Len(response_bytes)) \o HeaderEnd)
    IN  << <<header>>, <<response_bytes>> >>

\* The write calls of the block, grouped into the runs between suspension
\* points: the header write and the body write have no await between them.
WriterSteps(response) ==
    LET response_bytes == Utf8Encode(json_dumps(response, DefaultItemSep, DefaultKeySep))
        header == Utf8Encode(ContentLengthPrefix \o <<32>>
                             \o IntToStr(Len(response_bytes)) \o HeaderEnd)
    IN  << <<header, response_bytes>> >>

\* Task t runs its next run of writer.write calls: each appends to the
\* transport's buffer.
TaskWrite(t) ==
    /\ wpc[t] = "writing"
    /\ LET steps == WriterSteps(wresp[t])
           k == wstep[t] + 1
       IN  /\ wbuf' = wbuf \o Concat(steps[k])
           /\ wstep' = [wstep EXCEPT ![t] = k]
           /\ wlog' = IF k = 1 THEN Append(wlog, wresp[t]) ELSE wlog
           /\ wpc' = [wpc EXCEPT ![t] = IF k = Len(steps) THEN "draining"
                                         ELSE "writing"]
    /\ UNCHANGED <<wresp, wire, framingVars, circuitVars, lateVars>>

\* `await writer.drain()` of task t returns.
TaskDrain(t) ==
    /\ wpc[t] = "draining"
    /\ wpc' = [wpc EXCEPT ![t] = "done"]
    /\ UNCHANGED <<wresp, wstep, wbuf, wire, wlog, framingVars, circuitVars, lateVars>>

\* The event loop writes the first k buffered bytes to the pipe: as many as
\* the pipe takes.
PipeWrite ==
    /\ wbuf # <<>>
    /\ \E k \in (1..MaxChunk) \cup {Len(wbuf)} :
          /\ k <= Len(wbuf)
          /\ wire' = wire \o SubSeq(wbuf, 1, k)
          /\ wbuf' = SubSeq(wbuf, k + 1, Len(wbuf))
    /\ UNCHANGED <<wpc, wresp, wstep, wlog, framingVars, circuitVars, lateVars>>

InitWriters ==
    /\ FramingIdle
    /\ CircuitIdle
    /\ LateIdle
    /\ wpc = [t \in WriterTasks |-> "writing"]
    /\ wresp \in [WriterTasks -> WriterResponses]
    /\ wstep = [t \in WriterTasks |-> 0]
    /\ wbuf = <<>>
    /\ wire = <<>>
    /\ wlog = <<>>

NextWriters ==
    \/ \E t \in WriterTasks : TaskWrite(t)
    \/ \E t \in WriterTasks : TaskDrain(t)
    \/ PipeWrite

SpecWriters == InitWriters /\ [][NextWriters]_vars

(***************************************************************************)
(* Properties of _read_exact (SpecExact).                                  *)
(***************************************************************************)
ExactDone == xpc \in {"returned", "raised"}

\* The rest of the stream from 0-based cursor s.
From(d, s) == SubSeq(d, s + 1, Len(d))

\* C2: when the stream holds at least N bytes from the cursor, _read_exact(N)
\* returns, for every chunk limit, exactly N bytes: the first N bytes of the
\* stream from the cursor, in their original order.
C2_ReadExactReturnsFirstN ==
    (ExactDone /\ Len(data) - xstart >= need) =>
        /\ xpc = "returned"
        /\ Len(acc) = need
        /\ \A i \in 1..need : acc[i] = data[xstart + i]

\* A call for more bytes than one read returns has ended, after several reads,
\* on a stream that still holds bytes after the N.
C2_Witness ==
    /\ xpc = "returned"
    /\ need > chunk_size
    /\ reads > 1
    /\ Len(data) > xstart + need

\* C3: when the stream holds fewer than N bytes from the cursor (an empty
\* stream included), _read_exact(N) raises the end-of-stream error; whatever
\* it returns is N bytes long, never shorter.
C3_ShortStreamRaisesEOF ==
    /\ (ExactDone /\ Len(data) - xstart < need) => xpc = "raised"
    /\ xpc = "returned" => Len(acc) = need
    /\ xpc = "raised" => Len(acc) < need

\* The stream ended after delivering part of the bytes asked for.
C3_Witness ==
    /\ xpc = "raised"
    /\ acc # <<>>
    /\ Len(acc) < need

\* C12: _read_exact(0) returns the empty byte sequence at once: it issues no
\* read call, it does not raise even when the stream is empty or at its end,
\* and the stream cursor stays where it was.
C12_ZeroBytesNoRead ==
    (xpc # "off" /\ need = 0) =>
        /\ xpc \in {"loop", "returned"}
        /\ acc = <<>>
        /\ reads = 0
        /\ pos = xstart
        /\ eof_error = NoEofError

\* _read_exact(0) has returned on a stream that is at its end, after an
\* earlier call consumed every byte of it.
C12_Witness ==
    /\ xpc = "returned"
    /\ need = 0
    /\ calls = 2
    /\ data # <<>>
    /\ pos = Len(data)

\* C15: the end-of-stream error of _read_exact carries the number of bytes
\* obtained and the number required; obtained is the number of bytes the
\* stream delivered to the call before it closed (all that stood between the
\* cursor and the end of the stream), with 0 <= obtained < required; a call
\* that has not raised carries no such error.
C15_EofReportsShortfall ==
    /\ xpc = "raised" =>
          /\ eof_error.raised
          /\ eof_error.required = need
          /\ eof_error.obtained = Len(data) - xstart
          /\ eof_error.obtained = Len(acc)
          /\ acc = From(data, xstart)
          /\ 0 <= eof_error.obtained
          /\ eof_error.obtained < eof_error.required
    /\ xpc # "raised" => eof_error = NoEofError

\* The error reports a shortfall after several chunks, on a call that began
\* past the start of the stream.
C15_Witness ==
    /\ xpc = "raised"
    /\ eof_error.obtained >= 2
    /\ reads > eof_error.obtained
    /\ eof_error.required > eof_error.obtained + 1
    /\ xstart > 0

\* C19: the accumulated length never exceeds N and the stream cursor has
\* moved by exactly the bytes accumulated, no read taking more than the
\* count still missing; when the call returns, the cursor has advanced by
\* exactly N and the bytes after the first N are still unread on the stream.
C19_CursorAdvancesByN ==
    xpc # "off" =>
        /\ Len(acc) <= need
        /\ pos = xstart + Len(acc)
        /\ acc = SubSeq(data, xstart + 1, pos)
        /\ xpc = "returned" =>
              /\ pos = xstart + need
              /\ From(data, pos) = From(data, xstart + need)

\* A call has returned after several short reads and has left bytes on the
\* stream.
C19_Witness ==
    /\ xpc = "returned"
    /\ reads >= 2
    /\ chunk_size < need
    /\ pos < Len(data)
    /\ pos = xstart + need

\* C20: _read_exact(N) ends: every read call but the last adds at least one
\* byte, so at most N reads return bytes and at most one returns none; the
\* zero-byte read ends the call with the end-of-stream error, and a call in
\* its loop always comes to return N bytes or to raise.
C20_ReadExactTerminates ==
    /\ [](xpc # "off" =>
            /\ reads <= need + 1
            /\ xpc # "raised" => reads <= Len(acc)
            /\ xpc = "raised" => (reads >= 1 /\ reads - 1 <= Len(acc)))
    /\ [][xpc = "raised" => (xpc' = "raised" /\ reads' = reads /\ pos' = pos)]_vars
    /\ ((xpc = "loop") ~> (xpc \in {"returned", "raised"}))

\* A call has ended with the end-of-stream error at its N-th read call, every
\* read before it having returned one byte.
C20_Witness ==
    /\ xpc = "raised"
    /\ reads = need
    /\ need >= 3
    /\ Len(acc) = need - 1

(***************************************************************************)
(* Properties of the message reader of main() (Spec).                      *)
(***************************************************************************)
\* The lengths n for which a header line Content-Length: n and a separator
\* line stand at cursor s.
HeaderLengthsAt(d, s) ==
    { n \in 0..Len(d) : IsPrefix(LengthLine(n) \o <<13, 10>>, From(d, s)) }

BodyStart(s, n) == s + Len(LengthLine(n)) + 2

\* The bodies of the complete frames standing at cursor s (none or one).
FramedBodiesAt(d, s) ==
    { SubSeq(d, BodyStart(s, n) + 1, BodyStart(s, n) + n) :
        n \in { m \in HeaderLengthsAt(d, s) : BodyStart(s, m) + m <= Len(d) } }

\* The body bytes are UTF-8 encoded JSON.
Decodes(body) ==
    Utf8Decode(body, <<>>).ok /\ json_loads(Utf8Decode(body, <<>>).text).ok

ValueOf(body) == json_loads(Utf8Decode(body, <<>>).text).v

\* The pass read a value: it was handled, or handle_request raised on it.
ReadReturned == rd.status = "handled" \/ (rd.status = "raised" /\ rd.exc = "AttributeError")

\* C1: a message read that starts at a well-formed frame (header line
\* Content-Length: N, separator line, N body bytes of UTF-8 JSON) returns the
\* value those N bytes encode, whatever the chunk limit of the transport.
C1_ReadReturnsFramedValue ==
    \A body \in FramedBodiesAt(data, rd.start) :
        (rd.status # "none" /\ Decodes(body)) =>
            /\ ReadReturned
            /\ rd.content = body
            /\ rd.value = ValueOf(body)

\* C4: when the stream closes after the header and separator lines but before
\* the declared N body bytes, the read fails with an end-of-stream error and
\* no value is built from the partial body.
C4_TruncatedBodyRaisesEOF ==
    \A n \in HeaderLengthsAt(data, rd.start) :
        (rd.status # "none" /\ BodyStart(rd.start, n) + n > Len(data)) =>
            /\ rd.status = "raised"
            /\ rd.exc = "EOFError"
            /\ rd.value = JNull

\* The line at cursor s has the shape Content-Length: <int>.
HeaderShapeAt(d, s) ==
    LET line == StreamReadline(d, s).result
    IN  /\ IsPrefix(ContentLengthPrefix, line)
        /\ AllDigits(Strip(SubSeq(line, Len(ContentLengthPrefix) + 1, Len(line))))

\* C7: when the line read where the header is expected is not blank and does
\* not have the shape Content-Length: <int>, the read fails with an explicit
\* error: the line is not skipped and no length is assumed.
C7_MalformedHeaderRaises ==
    (/\ rd.status # "none"
     /\ Strip(StreamReadline(data, rd.start).result) # <<>>
     /\ ~HeaderShapeAt(data, rd.start)) =>
        (rd.status = "raised" /\ ~rd.read_issued)

\* C8: when the N body bytes of a frame are not valid UTF-8 or not valid JSON,
\* the read fails with a decode error and yields no value.
C8_DecodeErrorPropagates ==
    \A body \in FramedBodiesAt(data, rd.start) :
        (rd.status # "none" /\ ~Decodes(body)) =>
            /\ rd.status = "raised"
            /\ rd.exc \in {"UnicodeDecodeError", "JSONDecodeError"}
            /\ rd.value = JNull

C11_ZeroLengthBodyIsRead ==
    (rd.status # "none" /\ 0 \in HeaderLengthsAt(data, rd.start)) =>
        /\ rd.status # "raised"
        /\ rd.stop = BodyStart(rd.start, 0)
        /\ pc = "running"

\* C11 as the loop behaves: a message Content-Length: 0, separator line, no
\* body byte, is read as zero body bytes: the read consumes the header and
\* separator lines and no byte after them; the empty text is not JSON, so the
\* read fails with a decode error, yields no value, and the loop ends without
\* reading the message that follows.
C11_ZeroLengthBodyIsDecodeError ==
    (rd.status # "none" /\ 0 \in HeaderLengthsAt(data, rd.start)) =>
        /\ rd.status = "raised"
        /\ rd.exc = "JSONDecodeError"
        /\ rd.n = 0
        /\ rd.content = <<>>
        /\ rd.value = JNull
        /\ rd.stop = BodyStart(rd.start, 0)
        /\ pos = rd.stop
        /\ pc = "failed"

\* A message without body has been read in one-byte chunks, with a complete
\* message standing after it on the stream.
C11_Witness ==
    /\ rd.status = "raised"
    /\ rd.n = 0
    /\ chunk_size = 1
    /\ FramedBodiesAt(data, rd.stop) # {}

\* Why no message can be read at cursor s: the stream is closed (at the header
\* line, at the separator line, or before the last declared body byte), the
\* header line is bad, or the body bytes are bad; "none" for a sound frame
\* and for a blank line.
FailureCauseAt(d, s) ==
    LET header == StreamReadline(d, s)
    IN  IF header.result = <<>> THEN "closed"
        ELSE IF Strip(header.result) = <<>> THEN "none"
        ELSE IF ~HeaderShapeAt(d, s) THEN "header"
        ELSE IF StreamReadline(d, header.pos).result = <<>> THEN "closed"
        ELSE IF \E n \in HeaderLengthsAt(d, s) : BodyStart(s, n) + n > Len(d)
        THEN "closed"
        ELSE IF \E body \in FramedBodiesAt(d, s) : ~Decodes(body) THEN "body"
        ELSE "none"

\* The kind of error the pass reported to its caller.
ReportedKind(r) ==
    IF r.status # "raised" \/ r.exc = "AttributeError" THEN "none"
    ELSE IF r.exc = "EOFError" THEN "EndOfStream"
    ELSE IF ~r.read_issued THEN "MalformedHeader"
    ELSE "DecodeError"

\* C14: a closed stream (at the header line, the separator line or within
\* the body) is reported as an end-of-stream error, a bad header line as a
\* malformed-header error, bad body bytes as a decode error; each cause has
\* its own kind, so no two causes are reported alike.
C14_CausesHaveDistinctKinds ==
    rd.status # "none" =>
        LET cause == FailureCauseAt(data, rd.start)
            kind == ReportedKind(rd)
        IN  /\ cause = "closed" => kind = "EndOfStream"
            /\ cause = "header" => kind = "MalformedHeader"
            /\ cause = "body" => kind = "DecodeError"

(***************************************************************************)
(* Properties of the message writer of main() (Spec).                      *)
(***************************************************************************)
\* bytes is the frames of the values ws, one after the other, nothing else:
\* each frame is Content-Length: N, CR LF CR LF, and the N bytes of the
\* UTF-8 encoded JSON text.
RECURSIVE FramesOf(_, _)
FramesOf(bytes, ws) ==
    IF ws = <<>> THEN bytes = <<>>
    ELSE LET body == Utf8Encode(json_dumps(Head(ws), DefaultItemSep, DefaultKeySep))
             frame == ContentLengthPrefix \o <<32>> \o IntToStr(Len(body))
                      \o <<13, 10, 13, 10>> \o body
         IN  /\ IsPrefix(frame, bytes)
             /\ FramesOf(SubSeq(bytes, Len(frame) + 1, Len(bytes)), Tail(ws))

\* C10: the bytes on stdout are, for each response written and in order,
\* Content-Length: N CR LF CR LF followed by exactly the N bytes of the
\* UTF-8 encoded body; nothing stands before, between or after the frames.
C10_OutputIsExactFrames == FramesOf(out, written)

\* Two responses have been written.
C10_Witness == Len(written) = 2 /\ out # <<>>

(***************************************************************************)
(* Properties of _read_message over written frames (SpecClient).           *)
(***************************************************************************)
RECURSIVE FrameEnd(_)
FrameEnd(i) == IF i = 0 THEN 0 ELSE FrameEnd(i - 1) + Len(sent[i].frame)

\* C5: on a stream of k complete messages, successive reads return the
\* values in the order written, and after each read the cursor stands at the
\* first header byte of the next message; no read fails before all k are read.
C5_MessagesInOrder ==
    cut = 0 =>
        /\ Len(results) <= Len(sent)
        /\ \A i \in 1..Len(results) : results[i] = sent[i].v
        /\ cpc = "idle" => pos = FrameEnd(Len(results))
        /\ cpc = "failed" => Len(results) = Len(sent)

\* Two different messages have been read in one-byte chunks.
C5_Witness ==
    /\ cut = 0
    /\ chunk_size = 1
    /\ Len(results) = 2
    /\ results[1] # results[2]
    /\ cpc = "idle"

\* C6: a value framed by the message writer and read back by the message
\* reader comes back equal to the value written.
C6_RoundTrip ==
    \A i \in 1..Len(sent) :
        (cut = 0 /\ sent[i].frame = WriteMessage(sent[i].v)) =>
            /\ Len(results) >= i => results[i] = sent[i].v
            /\ (cpc = "failed" => Len(results) >= i)

\* An object with a non-ASCII string, framed by the writer of main(), has been
\* read back.
C6_Witness ==
    /\ cut = 0
    /\ results # <<>>
    /\ sent[1].v.t = "obj"
    /\ sent[1].frame = WriteMessage(sent[1].v)
    /\ sent[1].frame # create_jsonrpc_message(sent[1].v)
    /\ results[1] = sent[1].v

(***************************************************************************)
(* Properties of concurrent callers of the write block (SpecWriters).      *)
(***************************************************************************)
\* C13: when several callers write to the same stream concurrently, in
\* every interleaving the bytes written are whole messages one after the
\* other, in the order the callers began to write: no header or body of one
\* message stands within another message, on the pipe or in the buffer.
C13_WritesAreSerialized ==
    /\ FramesOf(wire \o wbuf, wlog)
    /\ (wbuf = <<>> /\ \A t \in WriterTasks : wpc[t] = "done") =>
          (Len(wlog) = MaxWriters /\ FramesOf(wire, wlog))

\* Two callers with different responses are both between their writes and
\* the return of drain(), the second having written before the first one's
\* message had left the buffer, which flushes in pieces.
C13_Witness ==
    /\ \A t \in WriterTasks : wpc[t] = "draining"
    /\ wresp[1] # wresp[2]
    /\ wlog[1] = wresp[2]
    /\ wire # <<>>
    /\ Len(wire) < Len(WriteMessage(wlog[1]))
    /\ Len(wbuf) > Len(WriteMessage(wlog[2]))

(***************************************************************************)
(* Properties of the dispatch loop of main() (Spec).                       *)
(***************************************************************************)
\* C21: in every message read the stream operations occur in the order header
\* line, separator line, body: the body read is issued at the cursor where
\* the separator line ends, and the body is exactly the N bytes that follow
\* the separator line.
C21_BodyIsNBytesAfterSeparator ==
    rd.read_issued =>
        LET header == StreamReadline(data, rd.start)
            blank == StreamReadline(data, header.pos)
        IN  /\ rd.body_at = blank.pos
            /\ (rd.n >= 0 /\ blank.pos + rd.n <= Len(data)) =>
                   /\ rd.content = Slice(data, blank.pos, blank.pos + rd.n)
                   /\ rd.stop = blank.pos + rd.n

\* C22: when the value of a Content-Length header line is not a non-negative
\* base-10 integer once trimmed (negative, signed, empty, not a number), the
\* read fails with a malformed-header error and no body read is issued.
C22_BadLengthIsMalformedHeader ==
    LET line == StreamReadline(data, rd.start).result
    IN  (/\ rd.status # "none"
         /\ IsPrefix(ContentLengthPrefix, line)
         /\ ~AllDigits(Strip(SubSeq(line, Len(ContentLengthPrefix) + 1, Len(line))))) =>
            /\ rd.status = "raised"
            /\ ~rd.read_issued
            /\ ReportedKind(rd) = "MalformedHeader"

\* C23: after a framing error (bad header line, stream closed early, body
\* that does not decode) the loop is over: the failed read is not retried, no
\* line or byte is skipped in search of the next header, and no further
\* message is delivered.
C23_NoRecoveryAfterFramingError ==
    (rd.status # "none" /\ FailureCauseAt(data, rd.start) # "none") =>
        pc # "running"

\* The peer wrote m as a message: Content-Length: N, separator line, and N
\* bytes that are the UTF-8 encoded JSON text of m.v.
WellFormed(m) ==
    \E body \in FramedBodiesAt(m.frame, 0) :
        /\ BodyStart(0, Len(body)) + Len(body) = Len(m.frame)
        /\ Decodes(body)
        /\ ValueOf(body) = m.v

\* The number of messages the peer wrote before the first thing on the stream
\* that is not a complete message.
WrittenByPeer ==
    LET sound(k) == \A i \in 1..k : WellFormed(sent[i]) /\ FrameEnd(i) <= Len(data)
    IN  CHOOSE k \in 0..Len(sent) :
            sound(k) /\ \A j \in (k + 1)..Len(sent) : ~sound(j)

\* C24: the messages the loop has handed to handle_request are at every point
\* a prefix of the messages the peer wrote: each one complete and well
\* formed, none reordered, duplicated or skipped, none after a framing
\* failure.
C24_DeliveredIsPrefixOfWritten ==
    /\ Len(delivered) <= WrittenByPeer
    /\ \A i \in 1..Len(delivered) : delivered[i] = sent[i].v

\* C29: the loop is strictly request/response sequential: between two header
\* reads every request read so far has exactly one response written, the
\* responses stand in the order of their requests, and no response is written
\* without a request.
C29_OneResponsePerRequest ==
    /\ Len(written) = Len(delivered)
    /\ \A i \in 1..Len(written) : written[i] = handle_request(delivered[i]).response

(***************************************************************************)
(* QuantumCircuit (dnalang_sdk/quantum.py): the gate-adding methods and    *)
(* the JSON round trip.  A circuit is [num_qubits, gates, name, metadata], *)
(* each field a Python value; gates is a list of dicts.                    *)
(***************************************************************************)
S_type == <<116, 121, 112, 101>>

S_target == <<116, 97, 114, 103, 101, 116>>

S_control == <<99, 111, 110, 116, 114, 111, 108>>

S_num_qubits == <<110, 117, 109, 95, 113, 117, 98, 105, 116, 115>>

S_gates == <<103, 97, 116, 101, 115>>

S_metadata == <<109, 101, 116, 97, 100, 97, 116, 97>>

\* {**ms, **other}: the members of other set one by one.
RECURSIVE DictUpdate(_, _)
DictUpdate(ms, other) ==
    IF other = <<>> THEN ms
    ELSE DictUpdate(DictSet(ms, Head(other).k, Head(other).v), Tail(other))

\* add_gate(gate_type, **kwargs): the circuit after the call.
add_gate(c, gate_type, kwargs) ==
    LET gate == JObj(DictUpdate(<<Member(S_type, gate_type)>>, kwargs))
    IN  [c EXCEPT !.gates = JArr(Append(c.gates.v, gate))]

h(c, target) == add_gate(c, JStr(<<104>>), <<Member(S_target, target)>>)

x(c, target) == add_gate(c, JStr(<<120>>), <<Member(S_target, target)>>)

y(c, target) == add_gate(c, JStr(<<121>>), <<Member(S_target, target)>>)

z(c, target) == add_gate(c, JStr(<<122>>), <<Member(S_target, target)>>)

cx(c, control, target) ==
    add_gate(c, JStr(<<99, 120>>),
             <<Member(S_control, control), Member(S_target, target)>>)

to_json(c) ==
    json_dumps(JObj(<<Member(S_num_qubits, c.num_qubits),
                      Member(S_gates, c.gates),
                      Member(S_name, c.name),
                      Member(S_metadata, c.metadata)>>),
               DefaultItemSep, DefaultKeySep)

CircuitFields == {S_num_qubits, S_gates, S_name, S_metadata}

\* cls(**data): [ok, circuit]; ok is FALSE when json.loads raises or the
\* constructor raises TypeError (data is not a dict, a key is not a field,
\* num_qubits is missing).  Fields left out take their defaults.
Construct(loaded) ==
    IF /\ loaded.ok
       /\ loaded.v.t = "obj"
       /\ \A i \in 1..Len(loaded.v.v) : loaded.v.v[i].k \in CircuitFields
       /\ \E i \in 1..Len(loaded.v.v) : loaded.v.v[i].k = S_num_qubits
    THEN [ok |-> TRUE,
          circuit |-> [num_qubits |-> DictGet(loaded.v.v, S_num_qubits, JNull),
                       gates |-> DictGet(loaded.v.v, S_gates, JArr(<<>>)),
                       name |-> DictGet(loaded.v.v, S_name, JNull),
                       metadata |-> DictGet(loaded.v.v, S_metadata, JObj(<<>>))]]
    ELSE [ok |-> FALSE, circuit |-> NoCircuit]

\* from_json passing num_qubits only to the constructor.
from_json_DropsGates(json_str) ==
    LET r == Construct(json_loads(json_str))
    IN  [r EXCEPT !.circuit.gates = JArr(<<>>)]

from_json(json_str) == Construct(json_loads(json_str))

\* The qubit indices the typed methods are called with.
Targets == { JInt(q) : q \in 0..(MaxQubits - 1) }

\* The add_gate calls made directly: gate type and keyword arguments.
\* measure(); u(params=[1]); u(params=(1,)); rz(target=0, name="\u00e9").
AddGateCalls ==
    { [gate_type |-> JStr(<<109, 101, 97, 115, 117, 114, 101>>), kwargs |-> <<>>],
      [gate_type |-> JStr(<<117>>),
       kwargs |-> <<Member(S_params, JArr(<<JInt(1)>>))>>],
      [gate_type |-> JStr(<<117>>),
       kwargs |-> <<Member(S_params, PyTuple(<<JInt(1)>>))>>],
      [gate_type |-> JStr(<<114, 122>>),
       kwargs |-> <<Member(S_target, JInt(0)), Member(S_name, JStr(<<233>>))>>] }

\* QuantumCircuit(num_qubits=n, name=...): no gates, empty metadata.
InitCircuit ==
    /\ FramingIdle
    /\ WriterIdle
    /\ LateIdle
    /\ circuit \in { [num_qubits |-> JInt(n), gates |-> JArr(<<>>), name |-> nm,
                       metadata |-> JObj(<<>>)] :
                      n \in 1..MaxQubits, nm \in {JNull, JStr(<<233>>)} }
    /\ restored = NoRestore

\* A gate-adding call leaves circuit `after`.
GateCall(after) ==
    /\ Len(circuit.gates.v) < MaxGates
    /\ circuit' = after
    /\ restored' = NoRestore
    /\ UNCHANGED <<framingVars, writerVars, lateVars>>

Call_h == \E t \in Targets : GateCall(h(circuit, t))

Call_x == \E t \in Targets : GateCall(x(circuit, t))

Call_y == \E t \in Targets : GateCall(y(circuit, t))

Call_z == \E t \in Targets : GateCall(z(circuit, t))

Call_cx == \E c \in Targets, t \in Targets : GateCall(cx(circuit, c, t))

Call_add_gate ==
    \E call \in AddGateCalls : GateCall(add_gate(circuit, call.gate_type, call.kwargs))

\* restored = QuantumCircuit.from_json(circuit.to_json())
RoundTrip ==
    /\ ~restored.done
    /\ LET r == from_json(to_json(circuit))
       IN  restored' = [done |-> TRUE, ok |-> r.ok, circuit |-> r.circuit]
    /\ UNCHANGED <<circuit, framingVars, writerVars, lateVars>>

NextCircuit ==
    Call_h \/ Call_x \/ Call_y \/ Call_z \/ Call_cx \/ Call_add_gate \/ RoundTrip

SpecCircuit == InitCircuit /\ [][NextCircuit]_vars

(***************************************************************************)
(* Properties of QuantumCircuit (SpecCircuit).                             *)
(***************************************************************************)
\* A change of the circuit appends exactly one gate, a dict with a "type"
\* key, after the gates already there, and changes nothing else.
AppendsOneGate ==
    circuit' # circuit =>
        /\ Len(circuit'.gates.v) = Len(circuit.gates.v) + 1
        /\ SubSeq(circuit'.gates.v, 1, Len(circuit.gates.v)) = circuit.gates.v
        /\ circuit'.gates.v[Len(circuit'.gates.v)].t = "obj"
        /\ \E i \in 1..Len(circuit'.gates.v[Len(circuit'.gates.v)].v) :
              circuit'.gates.v[Len(circuit'.gates.v)].v[i].k = S_type
        /\ circuit' = [circuit EXCEPT !.gates = circuit'.gates]

\* C18 as stated: for every circuit built by gate-adding calls (h, x, y, z,
\* cx, add_gate), from_json(to_json(c)) has the num_qubits of c and the gate
\* list of c: same length, same gates, same order; each gate-adding call
\* appends exactly one gate at the end.
C18_RoundTripKeepsGates ==
    /\ [](restored.done =>
            /\ restored.ok
            /\ restored.circuit.num_qubits = circuit.num_qubits
            /\ restored.circuit.gates = circuit.gates)
    /\ [][AppendsOneGate]_vars

\* The value json.loads(json.dumps(v)) of a value made of None, integers,
\* strings, lists, tuples and dicts: every tuple is a list.
RECURSIVE AsJson(_)
AsJson(v) ==
    IF v.t \in {"arr", "tuple"} THEN JArr([i \in 1..Len(v.v) |-> AsJson(v.v[i])])
    ELSE IF v.t = "obj"
    THEN JObj([i \in 1..Len(v.v) |-> Member(v.v[i].k, AsJson(v.v[i].v))])
    ELSE v

\* C18 as the code behaves: from_json(to_json(c)) has the num_qubits of c
\* and as many gates as c, in the same order, each equal to the gate of c
\* but for the JSON conversion of its arguments (a tuple comes back as a
\* list); the gate lists are equal when no argument holds a tuple, as with
\* the integer targets of h, x, y, z and cx.  Each gate-adding call appends
\* exactly one gate at the end.
C18_RoundTripUpToJson ==
    /\ [](restored.done =>
            /\ restored.ok
            /\ restored.circuit.num_qubits = circuit.num_qubits
            /\ restored.circuit.name = circuit.name
            /\ Len(restored.circuit.gates.v) = Len(circuit.gates.v)
            /\ restored.circuit.gates = AsJson(circuit.gates)
            /\ (AsJson(circuit.gates) = circuit.gates =>
                  restored.circuit.gates = circuit.gates))
    /\ [][AppendsOneGate]_vars

\* A circuit of an h gate and a cx gate, in that order, has been restored.
C18_Witness ==
    /\ restored.done
    /\ Len(circuit.gates.v) = 2
    /\ circuit.gates.v[1] = JObj(<<Member(S_type, JStr(<<104>>)),
                                   Member(S_target, JInt(0))>>)
    /\ circuit.gates.v[2] = JObj(<<Member(S_type, JStr(<<99, 120>>)),
                                   Member(S_control, JInt(0)),
                                   Member(S_target, JInt(1))>>)
    /\ restored.circuit.gates = circuit.gates

(***************************************************************************)
(* NCLMMCPServer.handle_request, called request by request on one server.  *)
(***************************************************************************)
MaxRequests == 2

\* The `arguments` of a tools/call request: none given (handle_tool_call
\* takes an empty dict), a dict, a value that is not a dict, and dicts whose
\* prompt, content or agents a tool cannot use.
ToolArguments ==
    { JObj(<<>>),
      JInt(3),
      JObj(<<Member(S_prompt, JInt(7))>>),
      JObj(<<Member(S_content, JInt(7))>>),
      JObj(<<Member(S_agents, JInt(7))>>),
      JObj(<<Member(S_agents, JArr(<<JInt(7)>>))>>) }

\* The `params` of a tools/call request: every tool and an unknown one, with
\* and without arguments; no tool name; params that are not a dict.
ToolParams ==
    { JObj(<<Member(S_name, JStr(nm))>>) : nm \in ToolNames \cup {<<110, 111, 112, 101>>} }
    \cup { JObj(<<Member(S_name, JStr(nm)), Member(S_arguments, a)>>) :
              nm \in ToolNames, a \in ToolArguments }
    \cup { JObj(<<>>), JInt(12), JNull }

RequestIds == { JInt(1), JStr(<<97>>) }

\* The methods of the requests: the four handle_request knows, and "x".
RequestMethods == { S_initialize, S_tools_list, S_tools_call, S_ping, <<120>> }

\* The values handed to handle_request: request objects with and without
\* id, method and params, and one value that is not an object.
ServerRequests ==
    { JObj(<<Member(S_id, i), Member(S_method, JStr(S_tools_call)), Member(S_params, q)>>) :
         i \in RequestIds, q \in ToolParams }
    \cup { JObj(<<Member(S_id, i), Member(S_method, JStr(m)), Member(S_params, q)>>) :
              i \in RequestIds, m \in RequestMethods \ {S_tools_call},
              q \in { JObj(<<>>), JInt(12) } }
    \cup { JObj(<<Member(S_method, JStr(m))>>) : m \in RequestMethods }
    \cup { JObj(<<Member(S_id, JInt(1))>>),
            JObj(<<Member(S_id, JInt(1)), Member(S_method, JInt(5))>>),
            JInt(12) }

\* server = NCLMMCPServer(), in each environment.
InitServer ==
    /\ FramingIdle
    /\ WriterIdle
    /\ CircuitIdle
    /\ LoopIdle
    /\ ProcIdle
    /\ sdk \in SdkStates
    /\ metrics = 0
    /\ session_history = <<>>
    /\ answered = NoAnswer
    /\ served = 0

\* await server.handle_request(request)
HandleRequest ==
    /\ served < MaxRequests
    /\ \E request \in ServerRequests :
          LET r == handle_request(request)
          IN  /\ answered' = [request |-> request, raised |-> r.raised,
                              response |-> r.response, handler |-> r.handler,
                              evolved |-> r.evolved]
              /\ metrics' = metrics + r.evolved
    /\ served' = served + 1
    /\ UNCHANGED <<sdk, session_history, framingVars, writerVars, circuitVars,
                   loopVars, procVars>>

NextServer == HandleRequest

SpecServer == InitServer /\ [][NextServer]_vars

(***************************************************************************)
(* Properties of handle_request (SpecServer).                              *)
(***************************************************************************)
\* The keys of a dict.
Keys(v) == { v.v[i].k : i \in 1..Len(v.v) }

\* The error code of a response, 0 if it has none.
ErrorCode(response) ==
    IF response.t = "obj" /\ S_error \in Keys(response)
    THEN DictGet(DictGet(response.v, S_error, JNull).v, S_code, JInt(0)).v
    ELSE 0

\* C27: for every request object handle_request returns, never raises: the
\* response is a JSON-RPC 2.0 object whose id is the request's id (null when
\* the request has none) and that holds exactly one of result and error; when
\* the tool handler raised, the response is an error with code -32000.
C27_AlwaysAnswersRequestObjects ==
    (served > 0 /\ answered.request.t = "obj") =>
        LET request == answered.request
            response == answered.response
        IN  /\ ~answered.raised
            /\ response.t = "obj"
            /\ DictGet(response.v, S_jsonrpc, JNull) = JStr(<<50, 46, 48>>)
            /\ S_id \in Keys(response)
            /\ DictGet(response.v, S_id, JInt(0)) = DictGet(request.v, S_id, JNull)
            /\ (S_result \in Keys(response)) # (S_error \in Keys(response))
            /\ (/\ DictGet(request.v, S_method, JNull) = JStr(S_tools_call)
                /\ handle_tool_call(DictGet(request.v, S_params, JObj(<<>>))).raised) =>
                   ErrorCode(response) = -32000

\* A tool raised after it had evolved the metrics, and the request with a
\* string id was answered with error -32000.
C27_Witness ==
    /\ answered.request.t = "obj"
    /\ answered.handler = "handle_tool_call"
    /\ answered.evolved = 1
    /\ ErrorCode(answered.response) = -32000
    /\ DictGet(answered.response.v, S_id, JNull) = JStr(<<97>>)

\* C28: a request whose method is none of initialize, tools/list, tools/call
\* and ping is answered with error -32601; no handler is invoked and the
\* metrics and the session history stay as they were.
C28_UnknownMethodTouchesNothing ==
    [][(/\ served' = served + 1
        /\ answered'.request.t = "obj"
        /\ DictGet(answered'.request.v, S_method, JStr(<<>>))
              \notin { JStr(S_initialize), JStr(S_tools_list), JStr(S_tools_call),
                        JStr(S_ping) }) =>
          /\ ~answered'.raised
          /\ ErrorCode(answered'.response) = -32601
          /\ answered'.handler = "none"
          /\ metrics' = metrics
          /\ session_history' = session_history]_vars

\* A request with an unknown method has been answered by a server whose
\* metrics an earlier tool call had evolved.
C28_Witness ==
    /\ served = 2
    /\ metrics > 0
    /\ answered.request.t = "obj"
    /\ ErrorCode(answered.response) = -32601

(***************************************************************************)
(* DNALangCopilotClient (dnalang_sdk/client.py): the owner of the child    *)
(* process and of the pipes to it.  A child is numbered by its place in    *)
(* `children`; its state is "running", "exited" (it ended by itself),      *)
(* "terminated" (it ended on terminate()) or "killed".                     *)
(***************************************************************************)
MaxSpawns == 2

\* start() without the `not self._cli_process` test.
start_NoHandleCheck(handle, mode, cli_found, next_child) ==
    IF mode
    THEN IF cli_found
         THEN [handle |-> next_child, spawned |-> TRUE]
         ELSE [handle |-> handle, spawned |-> FALSE]
    ELSE [handle |-> handle, spawned |-> FALSE]

\* start(): the handle it leaves and whether subprocess.Popen spawned a
\* child; cli_found FALSE is the FileNotFoundError of Popen, which is caught.
start(handle, mode, cli_found, next_child) ==
    IF mode /\ handle = 0
    THEN IF cli_found
         THEN [handle |-> next_child, spawned |-> TRUE]
         ELSE [handle |-> handle, spawned |-> FALSE]
    ELSE [handle |-> handle, spawned |-> FALSE]

\* close(): the handle it leaves, the signals it sent and the state it
\* leaves the held child in; in_time tells whether wait(timeout=5) returned.
\* terminate() on a child that has exited sends nothing further.
close(handle, state, in_time) ==
    IF handle # 0
    THEN [handle |-> 0,
          signals |-> IF state = "running" /\ ~in_time
                      THEN <<"terminate", "kill">> ELSE <<"terminate">>,
          state |-> IF state # "running" THEN state
                    ELSE IF in_time THEN "terminated" ELSE "killed"]
    ELSE [handle |-> handle, signals |-> <<>>, state |-> state]

\* What a child writes on its stdout before it ends.
ChildMessages == SeqsUpTo({ Sent(JInt(-3), create_jsonrpc_message(JInt(-3))) }, 1)

ChildCuts == {0, 1}

\* No _read_exact call is in progress on the stream.
ExactReset ==
    /\ xpc' = "off"
    /\ need' = 0
    /\ acc' = <<>>
    /\ xstart' = 0
    /\ reads' = 0
    /\ calls' = 0
    /\ eof_error' = NoEofError

\* The pipes of a new child: a reader stands at the start of its output.
FreshStream ==
    /\ \E ss \in ChildMessages, drop \in ChildCuts :
          /\ sent' = ss
          /\ cut' = drop
          /\ data' = StreamOf(ss, drop)
    /\ pos' = 0
    /\ cpc' = "idle"
    /\ results' = <<>>
    /\ fault' = "none"
    /\ wire' = <<>>
    /\ ExactReset

\* The pipes are gone with the handle, and the reader with them.
NoStream ==
    /\ sent' = <<>>
    /\ cut' = 0
    /\ data' = <<>>
    /\ pos' = 0
    /\ cpc' = "none"
    /\ results' = <<>>
    /\ fault' = "none"
    /\ wire' = <<>>
    /\ ExactReset

\* await client.start(), also through `async with` (__aenter__).
Call_start ==
    /\ Len(children) < MaxSpawns
    /\ \E cli_found \in BOOLEAN :
          LET r == start(cli_process, server_mode, cli_found, Len(children) + 1)
          IN  /\ cli_process' = r.handle
              /\ children' = IF r.spawned THEN Append(children, "running") ELSE children
              /\ stream_open' = IF r.spawned THEN TRUE ELSE stream_open
              /\ lifecycle' = [op |-> "start", before |-> cli_process,
                               after |-> r.handle, spawned |-> r.spawned,
                               cli_found |-> cli_found, in_time |-> FALSE,
                               signals |-> <<>>]
              /\ IF r.spawned THEN FreshStream
                 ELSE UNCHANGED <<sent, cut, data, pos, clientVars, exactVars, wire>>
    /\ UNCHANGED <<chunk_size, serverVars, wpc, wresp, wstep, wbuf, wlog, circuitVars,
                   mcpVars, loopVars, server_mode>>

\* await client.close(), also through `async with` (__aexit__).
Call_close ==
    /\ \E in_time \in BOOLEAN :
          LET state == IF cli_process # 0 THEN children[cli_process] ELSE "none"
              r == close(cli_process, state, in_time)
          IN  /\ cli_process' = r.handle
              /\ children' = IF cli_process # 0
                             THEN [children EXCEPT ![cli_process] = r.state]
                             ELSE children
              /\ stream_open' = IF cli_process # 0 THEN FALSE ELSE stream_open
              /\ lifecycle' = [op |-> "close", before |-> cli_process,
                               after |-> r.handle, spawned |-> FALSE,
                               cli_found |-> FALSE, in_time |-> in_time,
                               signals |-> r.signals]
    /\ IF cli_process # 0 THEN NoStream
       ELSE UNCHANGED <<sent, cut, data, pos, clientVars, exactVars, wire>>
    /\ UNCHANGED <<chunk_size, serverVars, wpc, wresp, wstep, wbuf, wlog, circuitVars,
                   mcpVars, loopVars, server_mode>>

\* The held child ends by itself.
ChildExits ==
    /\ cli_process # 0
    /\ children[cli_process] = "running"
    /\ children' = [children EXCEPT ![cli_process] = "exited"]
    /\ UNCHANGED <<framingVars, writerVars, circuitVars, mcpVars, loopVars,
                   server_mode, cli_process, stream_open, lifecycle>>

\* The message writer frames a request and writes it to the child's stdin.
WriteFrame ==
    /\ stream_open
    /\ wire = <<>>
    /\ wire' = wire \o create_jsonrpc_message(PingRequest)
    /\ UNCHANGED <<framingVars, wpc, wresp, wstep, wbuf, wlog, circuitVars, lateVars>>

\* The message reader and the exact read at work on the child's stdout.
ReadFromChild == stream_open /\ NextClient

InitProcess ==
    /\ data = <<>>
    /\ pos = 0
    /\ chunk_size \in ChunkSizes
    /\ sent = <<>>
    /\ cut = 0
    /\ ServerIdle
    /\ ExactIdle
    /\ ClientIdle("none")
    /\ WriterIdle
    /\ CircuitIdle
    /\ McpIdle
    /\ LoopIdle
    /\ server_mode \in BOOLEAN
    /\ cli_process = 0
    /\ children = <<>>
    /\ stream_open = FALSE
    /\ lifecycle = NoLifecycle

NextProcess == Call_start \/ Call_close \/ ChildExits \/ WriteFrame \/ ReadFromChild

SpecProcess == InitProcess /\ [][NextProcess]_vars

(***************************************************************************)
(* Properties of the owner of the child process (SpecProcess).             *)
(***************************************************************************)
\* C26: the message reader, the message writer and the exact read never
\* close the stream they work on, on success or on an error: the stream is
\* open for as long as its owner holds the child, and its status changes
\* only in a step in which the owner takes or clears the handle.
C26_OnlyOwnerClosesStream ==
    /\ [](cli_process # 0 => stream_open)
    /\ [][stream_open' # stream_open =>
            /\ cli_process' # cli_process
            /\ lifecycle'.op \in {"start", "close"}
            /\ lifecycle'.before = cli_process]_vars

\* The reader has failed at the end of the stream and the writer has written
\* a frame: the owner holds the child and the stream is open.
C26_Witness ==
    /\ cpc = "failed"
    /\ fault = "EndOfStream"
    /\ eof_error.raised
    /\ wire # <<>>
    /\ cli_process # 0
    /\ stream_open

\* C30: the client holds at most one child: a child that runs is the held
\* one.  start() spawns exactly when server_mode is set, no handle is held
\* and the CLI is found, and else leaves the handle as it is; close() leaves
\* no handle, sends nothing when none was held, and sends terminate to the
\* held child, then kill exactly when the child ran on past the wait.
C30_AtMostOneChild ==
    /\ cli_process \in 0..Len(children)
    /\ \A k \in 1..Len(children) : children[k] = "running" => k = cli_process
    /\ lifecycle.op # "none" => cli_process = lifecycle.after
    /\ lifecycle.op = "start" =>
          /\ lifecycle.spawned <=>
                (server_mode /\ lifecycle.before = 0 /\ lifecycle.cli_found)
          /\ lifecycle.spawned => lifecycle.after = Len(children)
          /\ ~lifecycle.spawned => lifecycle.after = lifecycle.before
    /\ lifecycle.op = "close" =>
          /\ lifecycle.after = 0
          /\ lifecycle.before = 0 => lifecycle.signals = <<>>
          /\ lifecycle.before # 0 =>
                /\ lifecycle.signals # <<>>
                /\ lifecycle.signals[1] = "terminate"
                /\ children[lifecycle.before] # "running"
                /\ Len(lifecycle.signals) = 2 <=> children[lifecycle.before] = "killed"
                /\ children[lifecycle.before] = "killed" =>
                      (lifecycle.signals[2] = "kill" /\ ~lifecycle.in_time)

\* start() has spawned a second child after close() had to kill the first.
C30_Witness ==
    /\ lifecycle.op = "start"
    /\ lifecycle.spawned
    /\ Len(children) = 2
    /\ children[1] = "killed"
    /\ cli_process = 2

(***************************************************************************)
(* main() taken await by await: each await of the loop body is a point     *)
(* where the event loop may run another coroutine.                         *)
(***************************************************************************)
\* Two coroutines running the loop of main() on the same stdin.
Loops_Two == {1, 2}

\* The coroutines that run the loop: asyncio.run(main()) starts one, and the
\* loop creates no task.
Loops == {1}

\* One cursor-consuming call on stdin; entered tells whether a header call
\* found a Content-Length line and so began a message read.
ReadCall(l, call, from, to, entered) ==
    [loop |-> l, call |-> call, from |-> from, to |-> to, entered |-> entered]

\* header = await reader.readline(), then the tests up to the parsed length.
AwaitHeader(l) ==
    /\ lpc[l] = "header"
    /\ LET header == StreamReadline(data, pos)
           htext == Utf8Decode(header.result, <<>>)
           length == ParseInt(HeaderField(htext.text))
           skip == Strip(header.result) = <<>>
                   \/ ~IsPrefix(ContentLengthPrefix, header.result)
           enters == header.result # <<>> /\ ~skip /\ htext.ok /\ length.ok
       IN  /\ pos' = header.pos
           /\ rlog' = Append(rlog, ReadCall(l, "header", pos, header.pos, enters))
           /\ lpc' = [lpc EXCEPT ![l] = IF header.result = <<>> THEN "stopped"
                                        ELSE IF skip THEN "header"
                                        ELSE IF enters THEN "separator"
                                        ELSE "failed"]
           /\ llen' = [llen EXCEPT ![l] = IF enters THEN length.v ELSE 0]
    /\ UNCHANGED <<data, chunk_size, sent, cut, serverVars, exactVars, clientVars,
                   writerVars, circuitVars, mcpVars, procVars>>

\* await reader.readline(): the empty line after the header.
AwaitSeparator(l) ==
    /\ lpc[l] = "separator"
    /\ LET blank == StreamReadline(data, pos)
       IN  /\ pos' = blank.pos
           /\ rlog' = Append(rlog, ReadCall(l, "separator", pos, blank.pos, FALSE))
    /\ lpc' = [lpc EXCEPT ![l] = "body"]
    /\ UNCHANGED <<data, chunk_size, sent, cut, serverVars, exactVars, clientVars,
                   writerVars, circuitVars, mcpVars, procVars, llen>>

\* content = await reader.read(content_length), and the code up to the next
\* await: json.loads, handle_request (which does not suspend for the requests
\* sent here) and the two writer.write calls.
AwaitBody(l) ==
    /\ lpc[l] = "body"
    /\ LET content == reader_read(data, pos, chunk_size, llen[l])
           ctext == Utf8Decode(content.result, <<>>)
           request == json_loads(ctext.text)
           r == handle_request(request.v)
           read == ctext.ok /\ request.ok
           answers == read /\ ~r.raised
       IN  /\ pos' = content.pos
           /\ rlog' = Append(rlog, ReadCall(l, "body", pos, content.pos, FALSE))
           /\ delivered' = IF read THEN Append(delivered, request.v) ELSE delivered
           /\ out' = IF answers THEN out \o WriteMessage(r.response) ELSE out
           /\ written' = IF answers THEN Append(written, r.response) ELSE written
           /\ metrics' = IF answers THEN metrics + r.evolved ELSE metrics
           /\ lpc' = [lpc EXCEPT ![l] = IF answers THEN "drain" ELSE "failed"]
    /\ UNCHANGED <<data, chunk_size, sent, cut, pc, rd, exactVars, clientVars,
                   writerVars, circuitVars, sdk, session_history, answered, served,
                   procVars, llen>>

\* await writer.drain() returns: the loop goes round.
AwaitDrain(l) ==
    /\ lpc[l] = "drain"
    /\ lpc' = [lpc EXCEPT ![l] = "header"]
    /\ UNCHANGED <<framingVars, writerVars, circuitVars, mcpVars, procVars, llen, rlog>>

\* What stands on stdin: requests, a value that is not a request object, a
\* header line without a length.
LoopFrames ==
    { Sent(v, create_jsonrpc_message(v)) : v \in PeerValues }
    \cup { Sent(JNull, RawFrame(ContentLengthPrefix \o <<32, 120, 13, 10>>, <<49, 50>>)) }

InitLoop ==
    /\ sent \in SeqsUpTo(LoopFrames, MaxMsgs)
    /\ cut \in 0..MaxDrop
    /\ data = StreamOf(sent, cut)
    /\ pos = 0
    /\ chunk_size \in ChunkSizes
    /\ ServerIdle
    /\ ExactIdle
    /\ ClientIdle("none")
    /\ WriterIdle
    /\ CircuitIdle
    /\ McpIdle
    /\ ProcIdle
    /\ lpc = [l \in Loops |-> "header"]
    /\ llen = [l \in Loops |-> 0]
    /\ rlog = <<>>

NextLoop ==
    \E l \in Loops :
        AwaitHeader(l) \/ AwaitSeparator(l) \/ AwaitBody(l) \/ AwaitDrain(l)

SpecLoop == InitLoop /\ [][NextLoop]_vars

(***************************************************************************)
(* Properties of the loop taken await by await (SpecLoop).                 *)
(***************************************************************************)
\* The loops that stand inside a message read: the header line is consumed,
\* the body is not yet.
ReadsInProgress == { l \in DOMAIN lpc : lpc[l] \in {"separator", "body"} }

\* C25: at most one message read is in progress on stdin at any time, and one
\* reader makes every call on it: the header-line, separator-line and body
\* calls of a read follow each other on the stream with no call of another
\* read between them.
C25_SingleReader ==
    /\ Cardinality(ReadsInProgress) <= 1
    /\ Cardinality({ rlog[i].loop : i \in 1..Len(rlog) }) <= 1
    /\ \A i \in 1..Len(rlog) :
          /\ rlog[i].call = "separator" =>
                /\ i > 1
                /\ rlog[i - 1].call = "header"
                /\ rlog[i - 1].entered
                /\ rlog[i - 1].loop = rlog[i].loop
                /\ rlog[i - 1].to = rlog[i].from
          /\ rlog[i].call = "body" =>
                /\ i > 1
                /\ rlog[i - 1].call = "separator"
                /\ rlog[i - 1].loop = rlog[i].loop
                /\ rlog[i - 1].to = rlog[i].from
          /\ (rlog[i].call = "header" /\ rlog[i].entered /\ i < Len(rlog)) =>
                rlog[i + 1].call = "separator"
    /\ \A l \in ReadsInProgress :
          /\ rlog # <<>>
          /\ rlog[Len(rlog)].loop = l
          /\ rlog[Len(rlog)].call = (IF lpc[l] = "separator" THEN "header" ELSE "separator")

\* A request has been answered and the read of the next message is in
\* progress: its header and separator lines are consumed, its body is not.
C25_Witness ==
    /\ written # <<>>
    /\ Cardinality({ i \in 1..Len(rlog) : rlog[i].call = "body" }) = 1
    /\ \E l \in ReadsInProgress : lpc[l] = "body"

====
